---- MODULE Spec2Model ----
(***************************************************************************)
(* RustaCUDA host-visible owning handles: LockedBox, UnifiedBox and        *)
(* UnifiedBuffer over the CUDA allocate/free primitives.                   *)
(*                                                                         *)
(* The driver primitives (crate::memory::malloc) are the environment: each *)
(* call either succeeds or reports one of BackendErrors, chosen by the     *)
(* action that makes the call.  backend.calls lists the driver calls made  *)
(* by the latest operation.                                                *)
(* A Rust function that takes a handle by value is modelled together with  *)
(* the destructor that runs on that local at the end of the function       *)
(* unless the function passed it to mem::forget.                           *)
(*                                                                         *)
(* Promise and Executor (memory/futures.rs) are modelled with closures     *)
(* known by identity; the transfer traits of memory/device/mod.rs, whose   *)
(* implementations and stream runtime lie outside these sources, with      *)
(* endpoints that hold element sequences and one queue per stream.         *)
(***************************************************************************)
EXTENDS Integers, Sequences, FiniteSets, TLC

VARIABLES backend, handles, raws, refs, last, panicked, aborted,
          promises, invoked, closures,
          mem, queues, completed, submitted

handleVars == <<backend, handles, raws, refs, panicked, aborted>>

promiseVars == <<promises, invoked, closures>>

transferVars == <<mem, queues, completed, submitted>>

vars == <<handleVars, last, promiseVars, transferVars>>

(* ------------------------------ bounds -------------------------------- *)
MaxHandles == 2
MaxAllocs == 2
MaxRaws == 1
MaxVal == 1
MaxMem == 3
MaxLen == 2
UsizeBits == 5
MaxPromises == 2
MaxClosures == 3
MaxStreams == 2
MaxEndpoints == 3
MaxCopies == 3

(* ------------------------- types and pointers ------------------------- *)
UsizeMax == 2 ^ UsizeBits - 1

Types == {"ZeroSizedType", "u64"}

SizeOf(ty) == IF ty = "ZeroSizedType" THEN 0 ELSE 8

AlignOf(ty) == IF ty = "ZeroSizedType" THEN 1 ELSE 8

ValuesOf(ty) == IF ty = "ZeroSizedType" THEN {0} ELSE 0 .. MaxVal

Null == 0

Dangling(ty) == AlignOf(ty)

BackendErrors == {"OutOfMemory", "LaunchFailed"}

Outcomes == {"Ok"} \cup BackendErrors

InvalidMemoryAllocation == "InvalidMemoryAllocation"

NoCells == [i \in {} |-> 0]

NoHandle == [kind |-> "none"]

Slots == 1 .. MaxHandles

(* Stream tokens (CUstream values) and the places a caller keeps Promises. *)
Streams == 1 .. MaxStreams

PromiseSlots == 1 .. MaxPromises

NoPromise == [kind |-> "none"]

(* The memories a transfer can name (device, locked or unified), and how   *)
(* many elements each holds: odd ones two, even ones one.                  *)
Endpoints == 1 .. MaxEndpoints

EndpointLen(e) == (e % 2) + 1

SizeMismatch == "SizeMismatch"

(* ------------------------------ backend ------------------------------- *)
cuda_malloc(be, region, count, r) ==
    LET addr == 16 * be.next IN
    IF r = "Ok"
    THEN [be |-> [heap |-> be.heap @@ (addr :> [region |-> region, live |-> TRUE,
                                                 n |-> count, cells |-> NoCells]),
                  calls |-> Append(be.calls, [fn |-> "malloc", region |-> region,
                                              arg |-> count, ok |-> TRUE,
                                              err |-> "", ptr |-> addr]),
                  next |-> be.next + 1, wild |-> be.wild],
          ok |-> TRUE, err |-> "", ptr |-> addr]
    ELSE [be |-> [be EXCEPT !.calls = Append(@, [fn |-> "malloc", region |-> region,
                                                 arg |-> count, ok |-> FALSE,
                                                 err |-> r, ptr |-> Null])],
          ok |-> FALSE, err |-> r, ptr |-> Null]

(* A free of a pointer that is not a live allocation of that region (never *)
(* allocated, allocated by the other region, or freed before) is recorded  *)
(* in wild.                                                                *)
cuda_free(be, region, ptr, r) ==
    LET call == [fn |-> "free", region |-> region, arg |-> ptr, ok |-> r = "Ok",
                 err |-> IF r = "Ok" THEN "" ELSE r, ptr |-> ptr]
        valid == /\ ptr \in DOMAIN be.heap
                 /\ be.heap[ptr].region = region
                 /\ be.heap[ptr].live
        be1 == [be EXCEPT !.calls = Append(@, call),
                          !.wild = IF valid THEN @
                                   ELSE @ \cup {[region |-> region, ptr |-> ptr]}]
    IN  IF r = "Ok"
        THEN [be |-> IF valid
                     THEN [be1 EXCEPT !.heap[ptr].live = FALSE,
                                      !.heap[ptr].cells = NoCells]
                     ELSE be1,
              ok |-> TRUE, err |-> ""]
        ELSE [be |-> be1, ok |-> FALSE, err |-> r]

cuda_malloc_unified(be, count, r) == cuda_malloc(be, "Unified", count, r)

cuda_free_unified(be, ptr, r) == cuda_free(be, "Unified", ptr, r)

cuda_malloc_locked(be, count, r) == cuda_malloc(be, "Locked", count, r)

cuda_free_locked(be, ptr, r) == cuda_free(be, "Locked", ptr, r)

(* Host write of one element through a handle's pointer; writes of a       *)
(* zero-sized value store nothing.                                         *)
WriteElem(be, ty, ptr, i, v) ==
    IF SizeOf(ty) = 0 THEN be
    ELSE [be EXCEPT !.heap[ptr].cells = (i :> v) @@ @]

(* The element at ptr[i] of the host's memory; -1 marks an element that    *)
(* was never written: its contents are indeterminate, not a value of T.    *)
ReadElem(be, ty, ptr, i) ==
    IF SizeOf(ty) = 0 THEN 0
    ELSE IF ptr \in DOMAIN be.heap /\ i \in DOMAIN be.heap[ptr].cells
         THEN be.heap[ptr].cells[i]
         ELSE -1

Unwritten(v) == v < 0

(* ------------------ comparisons of the element type ------------------- *)
(* PartialEq, PartialOrd and Ord of the values a handle holds (integers).  *)
PartialEq_eq(x, y) == x = y

PartialOrd_lt(x, y) == x < y

PartialOrd_le(x, y) == x <= y

PartialOrd_ge(x, y) == x >= y

PartialOrd_gt(x, y) == x > y

Ord_cmp(x, y) == IF x < y THEN "Less" ELSE IF x = y THEN "Equal" ELSE "Greater"

PartialOrd_partial_cmp(x, y) == [some |-> TRUE, val |-> Ord_cmp(x, y)]

(* ----------------------------- UnifiedBox ----------------------------- *)
(* What a call leaves behind: the driver, the value returned, whether it   *)
(* panicked (the panic unwinds) and whether it aborted the process.        *)
Ret(be, ok, err, handle, ptr, panic) ==
    [be |-> be, ok |-> ok, err |-> err, handle |-> handle, ptr |-> ptr, panic |-> panic,
     abort |-> FALSE]

(* The process is aborted inside the call: nothing is returned.            *)
Aborts(be) ==
    [be |-> be, ok |-> FALSE, err |-> "", handle |-> NoHandle, ptr |-> Null,
     panic |-> FALSE, abort |-> TRUE]

(* &*ptr and &mut *ptr on the null pointer are undefined behaviour: the    *)
(* build either aborts the process at the dereference (ub = "abort") or    *)
(* goes on with a reference to address 0 (ub = "return").                  *)
UbOutcomes == {"abort", "return"}

(* Reading a T that was never written is undefined behaviour as well: the  *)
(* read yields whatever the memory holds, any value of T up to MaxMem,     *)
(* which is above every value a store of the model writes.  A comparison   *)
(* reads twice, once through self and once through other.                  *)
UninitReads == (0 .. MaxMem) \X (0 .. MaxMem)

AbortsAt(ptr, ub) == ptr = Null /\ ub = "abort"

(* Variant of uninitialized that passes the size in bytes where the        *)
(* allocator takes a count of elements.                                    *)
UnifiedBox_uninitialized_ByteCount(be, ty, r) ==
    IF SizeOf(ty) = 0
    THEN Ret(be, TRUE, "", [kind |-> "UnifiedBox", ty |-> ty, ptr |-> Null], Null, FALSE)
    ELSE LET m == cuda_malloc_unified(be, SizeOf(ty), r) IN
         IF ~m.ok THEN Ret(m.be, FALSE, m.err, NoHandle, Null, FALSE)
         ELSE Ret(m.be, TRUE, "", [kind |-> "UnifiedBox", ty |-> ty, ptr |-> m.ptr],
                  Null, FALSE)

UnifiedBox_uninitialized(be, ty, r) ==
    IF SizeOf(ty) = 0
    THEN Ret(be, TRUE, "", [kind |-> "UnifiedBox", ty |-> ty, ptr |-> Null], Null, FALSE)
    ELSE LET m == cuda_malloc_unified(be, 1, r) IN
         IF ~m.ok THEN Ret(m.be, FALSE, m.err, NoHandle, Null, FALSE)
         ELSE Ret(m.be, TRUE, "", [kind |-> "UnifiedBox", ty |-> ty, ptr |-> m.ptr],
                  Null, FALSE)

(* Variant of UnifiedBox::new that gives a zero-sized value a dangling,    *)
(* non-null pointer, as UnifiedBuffer does.                                *)
UnifiedBox_new_DanglingZst(be, ty, val, r) ==
    IF SizeOf(ty) = 0
    THEN Ret(be, TRUE, "", [kind |-> "UnifiedBox", ty |-> ty, ptr |-> Dangling(ty)],
             Null, FALSE)
    ELSE LET m == cuda_malloc_unified(be, 1, r) IN
         IF ~m.ok THEN Ret(m.be, FALSE, m.err, NoHandle, Null, FALSE)
         ELSE Ret(WriteElem(m.be, ty, m.ptr, 0, val), TRUE, "",
                  [kind |-> "UnifiedBox", ty |-> ty, ptr |-> m.ptr], Null, FALSE)

UnifiedBox_new(be, ty, val, r) ==
    IF SizeOf(ty) = 0
    THEN Ret(be, TRUE, "", [kind |-> "UnifiedBox", ty |-> ty, ptr |-> Null], Null, FALSE)
    ELSE LET u == UnifiedBox_uninitialized(be, ty, r) IN
         IF ~u.ok THEN u
         ELSE Ret(WriteElem(u.be, ty, u.handle.ptr, 0, val), TRUE, "", u.handle,
                  Null, FALSE)

(* impl Drop for UnifiedBox: the destructor.  self is the handle after it. *)
UnifiedBox_Drop(be, self, r) ==
    IF self.ptr # Null
    THEN LET ptr == self.ptr
             f == cuda_free_unified(be, ptr, r)
         IN  Ret(f.be, f.ok, f.err, [self EXCEPT !.ptr = Null], Null, ~f.ok)
    ELSE Ret(be, TRUE, "", self, Null, FALSE)

UnifiedBox_from_raw(ty, ptr) == [kind |-> "UnifiedBox", ty |-> ty, ptr |-> ptr]

UnifiedBox_from_unified(ty, ptr) == [kind |-> "UnifiedBox", ty |-> ty, ptr |-> ptr]

(* mem::replace takes the pointer out, mem::forget(b) skips the destructor. *)
UnifiedBox_into_unified(be, b) ==
    LET ptr == b.ptr
        b1 == [b EXCEPT !.ptr = Null]
    IN  Ret(be, TRUE, "", NoHandle, ptr, FALSE)

(* &mut *UnifiedBox::into_unified(b).as_raw_mut(): the box has been taken  *)
(* apart when the reference is made.                                       *)
UnifiedBox_leak(be, b, ub) ==
    LET u == UnifiedBox_into_unified(be, b) IN
    IF AbortsAt(u.ptr, ub) THEN Aborts(u.be) ELSE u

(* Variant of UnifiedBox::drop whose Err arm hands back the emptied local  *)
(* (Err((e, uni_box))) instead of a box rebuilt around ptr.                *)
UnifiedBox_drop_ReturnsEmptied(be, uni_box, r) ==
    IF uni_box.ptr = Null
    THEN Ret(be, TRUE, "", NoHandle, Null, FALSE)
    ELSE LET ptr == uni_box.ptr
             moved == [uni_box EXCEPT !.ptr = Null]
             f == cuda_free_unified(be, ptr, r)
         IN  IF f.ok
             THEN Ret(f.be, TRUE, "", NoHandle, Null, FALSE)
             ELSE Ret(f.be, FALSE, f.err, moved, Null, FALSE)

(* UnifiedBox::drop, the explicit release.  On the early return and on the *)
(* Err arm the local uni_box is not forgotten: its destructor runs.        *)
UnifiedBox_drop(be, uni_box, r) ==
    IF uni_box.ptr = Null
    THEN LET d == UnifiedBox_Drop(be, uni_box, r) IN
         Ret(d.be, TRUE, "", NoHandle, Null, d.panic)
    ELSE LET ptr == uni_box.ptr
             moved == [uni_box EXCEPT !.ptr = Null]
             f == cuda_free_unified(be, ptr, r)
         IN  IF f.ok
             THEN Ret(f.be, TRUE, "", NoHandle, Null, FALSE)
             ELSE LET d == UnifiedBox_Drop(f.be, moved, r) IN
                  Ret(d.be, FALSE, f.err,
                      [kind |-> "UnifiedBox", ty |-> uni_box.ty, ptr |-> ptr],
                      Null, d.panic)

(* *b: &*self.ptr.as_raw(), then the read through the reference.           *)
UnifiedBox_deref(be, self, ub, uninit) ==
    IF AbortsAt(self.ptr, ub) THEN [abort |-> TRUE]
    ELSE LET v == ReadElem(be, self.ty, self.ptr, 0) IN
         [abort |-> FALSE, val |-> IF Unwritten(v) THEN uninit ELSE v]

(* *b = v: &mut *self.ptr.as_raw_mut(), then the store through it.         *)
UnifiedBox_deref_mut(be, self, v, ub) ==
    IF AbortsAt(self.ptr, ub) THEN Aborts(be)
    ELSE Ret(WriteElem(be, self.ty, self.ptr, 0, v), TRUE, "", self, Null, FALSE)

(* impl PartialEq / PartialOrd / Ord for UnifiedBox: each method passes    *)
(* &**self and &**other to the method of the same name on T.               *)
UnifiedBox_eq(be, self, other, ub, uninit) ==
    LET x == UnifiedBox_deref(be, self, ub, uninit[1])
        y == UnifiedBox_deref(be, other, ub, uninit[2])
    IN  IF x.abort \/ y.abort THEN [abort |-> TRUE]
        ELSE [abort |-> FALSE, val |-> PartialEq_eq(x.val, y.val)]

UnifiedBox_partial_cmp(be, self, other, ub, uninit) ==
    LET x == UnifiedBox_deref(be, self, ub, uninit[1])
        y == UnifiedBox_deref(be, other, ub, uninit[2])
    IN  IF x.abort \/ y.abort THEN [abort |-> TRUE]
        ELSE [abort |-> FALSE, val |-> PartialOrd_partial_cmp(x.val, y.val)]

UnifiedBox_lt(be, self, other, ub, uninit) ==
    LET x == UnifiedBox_deref(be, self, ub, uninit[1])
        y == UnifiedBox_deref(be, other, ub, uninit[2])
    IN  IF x.abort \/ y.abort THEN [abort |-> TRUE]
        ELSE [abort |-> FALSE, val |-> PartialOrd_lt(x.val, y.val)]

UnifiedBox_le(be, self, other, ub, uninit) ==
    LET x == UnifiedBox_deref(be, self, ub, uninit[1])
        y == UnifiedBox_deref(be, other, ub, uninit[2])
    IN  IF x.abort \/ y.abort THEN [abort |-> TRUE]
        ELSE [abort |-> FALSE, val |-> PartialOrd_le(x.val, y.val)]

UnifiedBox_ge(be, self, other, ub, uninit) ==
    LET x == UnifiedBox_deref(be, self, ub, uninit[1])
        y == UnifiedBox_deref(be, other, ub, uninit[2])
    IN  IF x.abort \/ y.abort THEN [abort |-> TRUE]
        ELSE [abort |-> FALSE, val |-> PartialOrd_ge(x.val, y.val)]

UnifiedBox_gt(be, self, other, ub, uninit) ==
    LET x == UnifiedBox_deref(be, self, ub, uninit[1])
        y == UnifiedBox_deref(be, other, ub, uninit[2])
    IN  IF x.abort \/ y.abort THEN [abort |-> TRUE]
        ELSE [abort |-> FALSE, val |-> PartialOrd_gt(x.val, y.val)]

UnifiedBox_cmp(be, self, other, ub, uninit) ==
    LET x == UnifiedBox_deref(be, self, ub, uninit[1])
        y == UnifiedBox_deref(be, other, ub, uninit[2])
    IN  IF x.abort \/ y.abort THEN [abort |-> TRUE]
        ELSE [abort |-> FALSE, val |-> Ord_cmp(x.val, y.val)]

(* ------------------------------ LockedBox ----------------------------- *)
LockedBox_uninitialized(be, ty, r) ==
    IF SizeOf(ty) = 0
    THEN Ret(be, TRUE, "", [kind |-> "LockedBox", ty |-> ty, ptr |-> Null], Null, FALSE)
    ELSE LET m == cuda_malloc_locked(be, 1, r) IN
         IF ~m.ok THEN Ret(m.be, FALSE, m.err, NoHandle, Null, FALSE)
         ELSE Ret(m.be, TRUE, "", [kind |-> "LockedBox", ty |-> ty, ptr |-> m.ptr],
                  Null, FALSE)

(* Variant of LockedBox::new that unwrap()s the allocation instead of      *)
(* propagating its error with `?`.                                         *)
LockedBox_new_Unwraps(be, ty, val, r) ==
    IF SizeOf(ty) = 0
    THEN Ret(be, TRUE, "", [kind |-> "LockedBox", ty |-> ty, ptr |-> Null], Null, FALSE)
    ELSE LET m == cuda_malloc_locked(be, 1, r) IN
         IF ~m.ok THEN Ret(m.be, FALSE, m.err, NoHandle, Null, TRUE)
         ELSE Ret(WriteElem(m.be, ty, m.ptr, 0, val), TRUE, "",
                  [kind |-> "LockedBox", ty |-> ty, ptr |-> m.ptr], Null, FALSE)

LockedBox_new(be, ty, val, r) ==
    IF SizeOf(ty) = 0
    THEN Ret(be, TRUE, "", [kind |-> "LockedBox", ty |-> ty, ptr |-> Null], Null, FALSE)
    ELSE LET u == LockedBox_uninitialized(be, ty, r) IN
         IF ~u.ok THEN u
         ELSE Ret(WriteElem(u.be, ty, u.handle.ptr, 0, val), TRUE, "", u.handle,
                  Null, FALSE)

(* impl Drop for LockedBox: the destructor.  self is the handle after it.  *)
LockedBox_Drop(be, self, r) ==
    IF self.ptr # Null
    THEN LET ptr == self.ptr
             f == cuda_free_locked(be, ptr, r)
         IN  Ret(f.be, f.ok, f.err, [self EXCEPT !.ptr = Null], Null, ~f.ok)
    ELSE Ret(be, TRUE, "", self, Null, FALSE)

LockedBox_from_raw(ty, ptr) == [kind |-> "LockedBox", ty |-> ty, ptr |-> ptr]

(* Variant of LockedBox::into_raw that returns b.ptr and lets b go out of  *)
(* scope: the destructor frees the allocation the pointer refers to.       *)
LockedBox_into_raw_DropsBox(be, b) ==
    LET d == LockedBox_Drop(be, b, "Ok") IN
    Ret(d.be, TRUE, "", NoHandle, b.ptr, d.panic)

(* mem::replace takes the pointer out, mem::forget(b) skips the destructor. *)
LockedBox_into_raw(be, b) ==
    LET ptr == b.ptr
        b1 == [b EXCEPT !.ptr = Null]
    IN  Ret(be, TRUE, "", NoHandle, ptr, FALSE)

(* &mut *LockedBox::into_raw(b).                                           *)
LockedBox_leak(be, b, ub) ==
    LET u == LockedBox_into_raw(be, b) IN
    IF AbortsAt(u.ptr, ub) THEN Aborts(u.be) ELSE u

(* Variant of LockedBox::drop that neither takes the pointer out of the    *)
(* local nor forgets it: the destructor frees the allocation again.        *)
LockedBox_drop_KeepsPointer(be, uni_box, r) ==
    IF uni_box.ptr = Null
    THEN Ret(be, TRUE, "", NoHandle, Null, FALSE)
    ELSE LET f == cuda_free_locked(be, uni_box.ptr, r)
             d == LockedBox_Drop(f.be, uni_box, r)
         IN  IF f.ok
             THEN Ret(d.be, TRUE, "", NoHandle, Null, d.panic)
             ELSE Ret(d.be, FALSE, f.err, uni_box, Null, d.panic)

(* LockedBox::drop, the explicit release.  On the early return and on the *)
(* Err arm the local uni_box is not forgotten: its destructor runs.        *)
LockedBox_drop(be, uni_box, r) ==
    IF uni_box.ptr = Null
    THEN LET d == LockedBox_Drop(be, uni_box, r) IN
         Ret(d.be, TRUE, "", NoHandle, Null, d.panic)
    ELSE LET ptr == uni_box.ptr
             moved == [uni_box EXCEPT !.ptr = Null]
             f == cuda_free_locked(be, ptr, r)
         IN  IF f.ok
             THEN Ret(f.be, TRUE, "", NoHandle, Null, FALSE)
             ELSE LET d == LockedBox_Drop(f.be, moved, r) IN
                  Ret(d.be, FALSE, f.err,
                      [kind |-> "LockedBox", ty |-> uni_box.ty, ptr |-> ptr],
                      Null, d.panic)

LockedBox_deref(be, self, ub, uninit) ==
    IF AbortsAt(self.ptr, ub) THEN [abort |-> TRUE]
    ELSE LET v == ReadElem(be, self.ty, self.ptr, 0) IN
         [abort |-> FALSE, val |-> IF Unwritten(v) THEN uninit ELSE v]

LockedBox_deref_mut(be, self, v, ub) ==
    IF AbortsAt(self.ptr, ub) THEN Aborts(be)
    ELSE Ret(WriteElem(be, self.ty, self.ptr, 0, v), TRUE, "", self, Null, FALSE)

(* impl PartialEq / PartialOrd / Ord for LockedBox.                        *)
LockedBox_eq(be, self, other, ub, uninit) ==
    LET x == LockedBox_deref(be, self, ub, uninit[1])
        y == LockedBox_deref(be, other, ub, uninit[2])
    IN  IF x.abort \/ y.abort THEN [abort |-> TRUE]
        ELSE [abort |-> FALSE, val |-> PartialEq_eq(x.val, y.val)]

LockedBox_partial_cmp(be, self, other, ub, uninit) ==
    LET x == LockedBox_deref(be, self, ub, uninit[1])
        y == LockedBox_deref(be, other, ub, uninit[2])
    IN  IF x.abort \/ y.abort THEN [abort |-> TRUE]
        ELSE [abort |-> FALSE, val |-> PartialOrd_partial_cmp(x.val, y.val)]

LockedBox_lt(be, self, other, ub, uninit) ==
    LET x == LockedBox_deref(be, self, ub, uninit[1])
        y == LockedBox_deref(be, other, ub, uninit[2])
    IN  IF x.abort \/ y.abort THEN [abort |-> TRUE]
        ELSE [abort |-> FALSE, val |-> PartialOrd_lt(x.val, y.val)]

LockedBox_le(be, self, other, ub, uninit) ==
    LET x == LockedBox_deref(be, self, ub, uninit[1])
        y == LockedBox_deref(be, other, ub, uninit[2])
    IN  IF x.abort \/ y.abort THEN [abort |-> TRUE]
        ELSE [abort |-> FALSE, val |-> PartialOrd_le(x.val, y.val)]

LockedBox_ge(be, self, other, ub, uninit) ==
    LET x == LockedBox_deref(be, self, ub, uninit[1])
        y == LockedBox_deref(be, other, ub, uninit[2])
    IN  IF x.abort \/ y.abort THEN [abort |-> TRUE]
        ELSE [abort |-> FALSE, val |-> PartialOrd_ge(x.val, y.val)]

LockedBox_gt(be, self, other, ub, uninit) ==
    LET x == LockedBox_deref(be, self, ub, uninit[1])
        y == LockedBox_deref(be, other, ub, uninit[2])
    IN  IF x.abort \/ y.abort THEN [abort |-> TRUE]
        ELSE [abort |-> FALSE, val |-> PartialOrd_gt(x.val, y.val)]

LockedBox_cmp(be, self, other, ub, uninit) ==
    LET x == LockedBox_deref(be, self, ub, uninit[1])
        y == LockedBox_deref(be, other, ub, uninit[2])
    IN  IF x.abort \/ y.abort THEN [abort |-> TRUE]
        ELSE [abort |-> FALSE, val |-> Ord_cmp(x.val, y.val)]

(* ---------------------------- UnifiedBuffer --------------------------- *)
(* Variant: the product taken with wrapping arithmetic (size * size_of).   *)
wrapping_mul(a, b) == [some |-> TRUE, val |-> (a * b) % (UsizeMax + 1)]

(* usize::checked_mul: None when the product does not fit in a usize.      *)
checked_mul(a, b) ==
    IF a * b > UsizeMax THEN [some |-> FALSE, val |-> 0]
    ELSE [some |-> TRUE, val |-> a * b]

(* Variant of UnifiedBuffer::uninitialized that uses the null pointer for  *)
(* a buffer without an allocation.                                         *)
UnifiedBuffer_uninitialized_NullSentinel(be, ty, size, r) ==
    LET bytes == size * SizeOf(ty) IN
    IF bytes > UsizeMax
    THEN Ret(be, FALSE, InvalidMemoryAllocation, NoHandle, Null, FALSE)
    ELSE IF bytes > 0
         THEN LET m == cuda_malloc_unified(be, bytes, r) IN
              IF ~m.ok THEN Ret(m.be, FALSE, m.err, NoHandle, Null, FALSE)
              ELSE Ret(m.be, TRUE, "",
                       [kind |-> "UnifiedBuffer", ty |-> ty, buf |-> m.ptr,
                        capacity |-> size], Null, FALSE)
         ELSE Ret(be, TRUE, "",
                  [kind |-> "UnifiedBuffer", ty |-> ty, buf |-> Null,
                   capacity |-> size], Null, FALSE)

UnifiedBuffer_uninitialized(be, ty, size, r) ==
    LET bytes == checked_mul(size, SizeOf(ty)) IN
    IF ~bytes.some
    THEN Ret(be, FALSE, InvalidMemoryAllocation, NoHandle, Null, FALSE)
    ELSE IF bytes.val > 0
         THEN LET m == cuda_malloc_unified(be, bytes.val, r) IN
              IF ~m.ok THEN Ret(m.be, FALSE, m.err, NoHandle, Null, FALSE)
              ELSE Ret(m.be, TRUE, "",
                       [kind |-> "UnifiedBuffer", ty |-> ty, buf |-> m.ptr,
                        capacity |-> size], Null, FALSE)
         ELSE Ret(be, TRUE, "",
                  [kind |-> "UnifiedBuffer", ty |-> ty, buf |-> Dangling(ty),
                   capacity |-> size], Null, FALSE)

(* Variant of the fill loop that starts at 1 (for x in 1..size).           *)
RECURSIVE FillFrom_SkipsFirst(_, _, _, _, _, _)
FillFrom_SkipsFirst(be, ty, ptr, x, size, value) ==
    IF x + 1 >= size THEN be
    ELSE FillFrom_SkipsFirst(WriteElem(be, ty, ptr, x + 1, value), ty, ptr, x + 1,
                             size, value)

(* for x in 0..size { *uninit.get_unchecked_mut(x) = value.clone(); }      *)
RECURSIVE FillFrom(_, _, _, _, _, _)
FillFrom(be, ty, ptr, x, size, value) ==
    IF x >= size THEN be
    ELSE FillFrom(WriteElem(be, ty, ptr, x, value), ty, ptr, x + 1, size, value)

UnifiedBuffer_new(be, ty, value, size, r) ==
    LET u == UnifiedBuffer_uninitialized(be, ty, size, r) IN
    IF ~u.ok THEN u
    ELSE Ret(FillFrom(u.be, ty, u.handle.buf, 0, size, value), TRUE, "", u.handle,
             Null, FALSE)

(* Variant of the copy loop that clones the first element into every slot. *)
RECURSIVE CopyFrom_FirstOnly(_, _, _, _, _)
CopyFrom_FirstOnly(be, ty, ptr, i, slice) ==
    IF i >= Len(slice) THEN be
    ELSE CopyFrom_FirstOnly(WriteElem(be, ty, ptr, i, slice[1]), ty, ptr, i + 1, slice)

(* for (i, x) in slice.iter().enumerate() { *uninit.get_unchecked_mut(i) = x.clone(); } *)
RECURSIVE CopyFrom(_, _, _, _, _)
CopyFrom(be, ty, ptr, i, slice) ==
    IF i >= Len(slice) THEN be
    ELSE CopyFrom(WriteElem(be, ty, ptr, i, slice[i + 1]), ty, ptr, i + 1, slice)

UnifiedBuffer_from_slice(be, ty, slice, r) ==
    LET u == UnifiedBuffer_uninitialized(be, ty, Len(slice), r) IN
    IF ~u.ok THEN u
    ELSE Ret(CopyFrom(u.be, ty, u.handle.buf, 0, slice), TRUE, "", u.handle,
             Null, FALSE)

(* impl Deref for UnifiedBuffer: slice::from_raw_parts(p, self.capacity).  *)
UnifiedBuffer_deref(self) == [data |-> self.buf, len |-> self.capacity]

(* impl DerefMut for UnifiedBuffer: slice::from_raw_parts_mut(ptr,          *)
(* self.capacity).                                                         *)
UnifiedBuffer_deref_mut(self) == [data |-> self.buf, len |-> self.capacity]

(* buffer.len(): the length of the slice the buffer derefs to.             *)
UnifiedBuffer_len(self) == UnifiedBuffer_deref(self).len

(* UnifiedBuffer::as_slice: the elements the host reads through the slice, *)
(* by index from 0.                                                        *)
UnifiedBuffer_as_slice(be, self) ==
    LET s == UnifiedBuffer_deref(self) IN
    [i \in 0 .. s.len - 1 |-> ReadElem(be, self.ty, s.data, i)]

(* Variant of the indexed store that ignores the element stride: every     *)
(* index lands on the first slot.                                          *)
UnifiedBuffer_index_mut_NoStride(be, self, i, v) ==
    LET s == UnifiedBuffer_deref_mut(self) IN WriteElem(be, self.ty, s.data, 0, v)

(* buffer[i] = v: an indexed store through the mutable slice (i < len).    *)
UnifiedBuffer_index_mut(be, self, i, v) ==
    LET s == UnifiedBuffer_deref_mut(self) IN WriteElem(be, self.ty, s.data, i, v)

UnifiedBuffer_as_unified_ptr(self) == self.buf

(* Variant of from_raw_parts that takes the count as spare capacity only   *)
(* and starts the buffer empty.                                            *)
UnifiedBuffer_from_raw_parts_Empty(ty, ptr, capacity) ==
    [kind |-> "UnifiedBuffer", ty |-> ty, buf |-> ptr, capacity |-> 0]

UnifiedBuffer_from_raw_parts(ty, ptr, capacity) ==
    [kind |-> "UnifiedBuffer", ty |-> ty, buf |-> ptr, capacity |-> capacity]

(* Variant of the destructor that discards the result of the free         *)
(* (let _ = cuda_free_unified(ptr)) instead of expect()ing it.             *)
UnifiedBuffer_Drop_IgnoresError(be, self, r) ==
    IF self.buf = Null THEN Ret(be, TRUE, "", self, Null, FALSE)
    ELSE IF self.capacity > 0 /\ SizeOf(self.ty) > 0
         THEN LET f == cuda_free_unified(be, self.buf, r) IN
              Ret(f.be, TRUE, "", [self EXCEPT !.buf = Null, !.capacity = 0],
                  Null, FALSE)
         ELSE Ret(be, TRUE, "", [self EXCEPT !.capacity = 0], Null, FALSE)

(* impl Drop for UnifiedBuffer: the destructor.                            *)
UnifiedBuffer_Drop(be, self, r) ==
    IF self.buf = Null THEN Ret(be, TRUE, "", self, Null, FALSE)
    ELSE IF self.capacity > 0 /\ SizeOf(self.ty) > 0
         THEN LET ptr == self.buf
                  f == cuda_free_unified(be, ptr, r)
              IN  Ret(f.be, f.ok, f.err,
                      [self EXCEPT !.buf = Null, !.capacity = IF f.ok THEN 0 ELSE @],
                      Null, ~f.ok)
         ELSE Ret(be, TRUE, "", [self EXCEPT !.capacity = 0], Null, FALSE)

(* Variant of UnifiedBuffer::drop without the capacity / size_of test: it  *)
(* frees whatever non-null pointer the buffer holds.                       *)
UnifiedBuffer_drop_FreesSentinel(be, uni_buf, r) ==
    IF uni_buf.buf = Null
    THEN Ret(be, TRUE, "", NoHandle, Null, FALSE)
    ELSE LET f == cuda_free_unified(be, uni_buf.buf, r) IN
         IF f.ok
         THEN Ret(f.be, TRUE, "", NoHandle, Null, FALSE)
         ELSE Ret(f.be, FALSE, f.err, uni_buf, Null, FALSE)

(* UnifiedBuffer::drop, the explicit release.  Only the Ok arm after a     *)
(* free forgets uni_buf; on every other path its destructor runs.          *)
UnifiedBuffer_drop(be, uni_buf, r) ==
    IF uni_buf.buf = Null
    THEN LET d == UnifiedBuffer_Drop(be, uni_buf, r) IN
         Ret(d.be, TRUE, "", NoHandle, Null, d.panic)
    ELSE IF uni_buf.capacity > 0 /\ SizeOf(uni_buf.ty) > 0
         THEN LET capacity == uni_buf.capacity
                  ptr == uni_buf.buf
                  moved == [uni_buf EXCEPT !.buf = Null]
                  f == cuda_free_unified(be, ptr, r)
              IN  IF f.ok
                  THEN Ret(f.be, TRUE, "", NoHandle, Null, FALSE)
                  ELSE LET d == UnifiedBuffer_Drop(f.be, moved, r) IN
                       Ret(d.be, FALSE, f.err,
                           [kind |-> "UnifiedBuffer", ty |-> uni_buf.ty, buf |-> ptr,
                            capacity |-> capacity], Null, d.panic)
         ELSE LET d == UnifiedBuffer_Drop(be, uni_buf, r) IN
              Ret(d.be, TRUE, "", NoHandle, Null, d.panic)

(* ------------------------- Promise and Executor ----------------------- *)
(* A closure is known by its identity f; running it with an executor is    *)
(* recorded as the call [f, executor].  The functions return what is left  *)
(* of self and the closure calls made.                                     *)
Promise_new(stream, f) == [kind |-> "Promise", inner |-> stream, f |-> f]

Executor_from_stream(stream) == [kind |-> "Executor", inner |-> stream]

(* Variant of execute that borrows the promise (&self) and leaves it with  *)
(* the caller.                                                             *)
Promise_execute_ByRef(self, executor) ==
    [self |-> self, calls |-> <<[f |-> self.f, executor |-> executor]>>]

(* fn execute(self, executor): self is moved in and its closure called.    *)
Promise_execute(self, executor) ==
    [self |-> NoPromise, calls |-> <<[f |-> self.f, executor |-> executor]>>]

(* Variant of poll that runs the closure on the promise's own stream and   *)
(* reports completion.                                                     *)
Promise_poll_Drives(self) ==
    [self |-> NoPromise,
     calls |-> <<[f |-> self.f, executor |-> Executor_from_stream(self.inner)]>>,
     ret |-> [ok |-> TRUE, val |-> "Ready"]]

(* impl Future for Promise: poll(&mut self) returns Ok(Async::NotReady).   *)
Promise_poll(self) ==
    [self |-> self, calls |-> <<>>, ret |-> [ok |-> TRUE, val |-> "NotReady"]]

(* Variant of copy that insists on equal lengths, as copy_from_slice does: *)
(* it panics on a mismatch and copies nothing.                             *)
Executor_copy_Strict(self, srcs, dsts) ==
    IF Len(srcs) # Len(dsts) THEN [srcs |-> srcs, dsts |-> dsts, panic |-> TRUE]
    ELSE [srcs |-> srcs, dsts |-> srcs, panic |-> FALSE]

(* for (src, dst) in srcs.iter().zip(dsts) { *dst = *src; } from the i-th  *)
(* pair on: zip ends when either iterator is exhausted.                    *)
RECURSIVE ZipCopy(_, _, _)
ZipCopy(srcs, dsts, i) ==
    IF i > Len(srcs) THEN dsts
    ELSE IF i > Len(dsts) THEN dsts
    ELSE ZipCopy(srcs, [dsts EXCEPT ![i] = srcs[i]], i + 1)

(* fn copy(&self, srcs, dsts): returns (); srcs and dsts are the two       *)
(* slices after the call.                                                  *)
Executor_copy(self, srcs, dsts) ==
    [srcs |-> srcs, dsts |-> ZipCopy(srcs, dsts, 1), panic |-> FALSE]

(* A Promise going out of scope: it has no Drop impl, its fields are       *)
(* dropped (the stream token is a plain pointer, the closure is not run).  *)
Promise_Drop(self) == [self |-> NoPromise, calls |-> <<>>]

(* ------------------ CopyDestination, AsyncCopyDestination ------------- *)
(* m maps each endpoint to the elements it holds; r is what the driver     *)
(* reports for the transfer.                                               *)
(* Variant of copy_from that copies as many elements as both sides hold    *)
(* and reports success.                                                    *)
copy_from_Truncates(m, self, source, r) ==
    LET n == IF Len(m[self]) < Len(m[source]) THEN Len(m[self]) ELSE Len(m[source]) IN
    IF r # "Ok" THEN [mem |-> m, ok |-> FALSE, err |-> r]
    ELSE [mem |-> [m EXCEPT ![self] = [i \in 1 .. Len(m[self]) |->
                                          IF i <= n THEN m[source][i] ELSE m[self][i]]],
          ok |-> TRUE, err |-> ""]

(* copy_from(&mut self, source): blocking; the counts are compared first.  *)
copy_from(m, self, source, r) ==
    IF Len(m[self]) # Len(m[source]) THEN [mem |-> m, ok |-> FALSE, err |-> SizeMismatch]
    ELSE IF r # "Ok" THEN [mem |-> m, ok |-> FALSE, err |-> r]
    ELSE [mem |-> [m EXCEPT ![self] = m[source]], ok |-> TRUE, err |-> ""]

(* copy_to(&self, dest): the same transfer with self as the source.        *)
copy_to(m, self, dest, r) == copy_from(m, dest, self, r)

(* async_copy_from(&mut self, source, stream): the same checks, then the   *)
(* copy is appended to the stream's queue; q is that queue.                *)
async_copy_from(m, q, id, self, source, stream, r) ==
    IF Len(m[self]) # Len(m[source]) THEN [queue |-> q, ok |-> FALSE, err |-> SizeMismatch]
    ELSE IF r # "Ok" THEN [queue |-> q, ok |-> FALSE, err |-> r]
    ELSE [queue |-> Append(q, [id |-> id, stream |-> stream, dst |-> self,
                               src |-> source]),
          ok |-> TRUE, err |-> ""]

async_copy_to(m, q, id, self, dest, stream, r) ==
    async_copy_from(m, q, id, dest, self, stream, r)

(* Variant of the stream's choice of what to run next: the newest entry.   *)
StreamNext_Newest(q) == Len(q)

(* The entry of its queue a stream runs next: the oldest.                  *)
StreamNext(q) == 1

(* The queue without its k-th entry.                                       *)
Without(q, k) == [i \in 1 .. Len(q) - 1 |-> IF i < k THEN q[i] ELSE q[i + 1]]

(* ------------------------------- state -------------------------------- *)
(* backend  the driver: heap, next fresh address, wild frees, and the calls *)
(*          made by the call in last                                       *)
(* handles  the handles the caller owns, by slot                           *)
(* raws     pointers handed out by into_raw / into_unified, not re-adopted *)
(* refs     references handed out by leak, not re-adopted                  *)
(* last     the call just made: its name, argument and return value        *)
(* panicked a destructor's expect() has fired: the panic unwinds and the   *)
(*          destructors of the handles still in scope run                  *)
(* aborted  the process has been aborted: by a dereference of the null     *)
(*          pointer, or by a destructor that panics during the unwinding   *)
(* promises the Promises the caller holds, by slot                         *)
(* invoked  the closure calls made so far, in order                        *)
(* closures the number of closures created so far                          *)
(* mem      the elements each endpoint holds                               *)
(* queues   per stream, the asynchronous copies enqueued and not yet run   *)
(* completed the asynchronous copies that have run, in completion order    *)
(* submitted the number of asynchronous copies enqueued so far             *)
InitState ==
    /\ backend = [heap |-> NoCells, calls |-> <<>>, next |-> 1, wild |-> {}]
    /\ handles = [h \in Slots |-> NoHandle]
    /\ raws = {}
    /\ refs = {}
    /\ panicked = FALSE
    /\ aborted = FALSE
    /\ promises = [p \in PromiseSlots |-> NoPromise]
    /\ invoked = <<>>
    /\ closures = 0
    /\ mem = [e \in Endpoints |-> [i \in 1 .. EndpointLen(e) |-> 10 * e + i]]
    /\ queues = [s \in Streams |-> <<>>]
    /\ completed = <<>>
    /\ submitted = 0

Init ==
    /\ InitState
    /\ last = [op |-> "init", h |-> 0, arg |-> NoHandle, ty |-> "u64", size |-> 0,
               val |-> 0, ok |-> TRUE, err |-> "",
               handle |-> NoHandle, ptr |-> Null]

FreeSlots == {h \in Slots : handles[h] = NoHandle}

FreeSlot == CHOOSE h \in FreeSlots : \A g \in FreeSlots : h <= g

CanAllocate == backend.next <= MaxAllocs

(* The driver as a call finds it: no calls made yet.                       *)
B == [backend EXCEPT !.calls = <<>>]

(* The caller's bookkeeping after a call that returned res.                *)
(* A panic raised while another one unwinds aborts the process.            *)
Returned(op, h, arg, ty, size, val, res) ==
    /\ backend' = res.be
    /\ panicked' = (panicked \/ res.panic)
    /\ aborted' = (res.abort \/ (panicked /\ res.panic))
    /\ last' = [op |-> op, h |-> h, arg |-> arg, ty |-> ty, size |-> size,
                val |-> val, ok |-> res.ok, err |-> res.err, handle |-> res.handle,
                ptr |-> res.ptr, panic |-> res.panic,
                abort |-> res.abort \/ (panicked /\ res.panic)]
    /\ UNCHANGED <<promiseVars, transferVars>>

(* A constructor: the caller keeps the handle of an Ok result.             *)
Construct(op, ty, size, val, res) ==
    /\ ~panicked /\ ~aborted /\ FreeSlots # {} /\ CanAllocate
    /\ Returned(op, FreeSlot, NoHandle, ty, size, val, res)
    /\ handles' = IF res.ok THEN [handles EXCEPT ![FreeSlot] = res.handle] ELSE handles
    /\ UNCHANGED <<raws, refs>>

(* An explicit release: the caller gets the handle back in an Err result.  *)
Release(op, h, res) ==
    /\ ~panicked /\ ~aborted
    /\ Returned(op, h, handles[h], handles[h].ty, 0, 0, res)
    /\ handles' = [handles EXCEPT ![h] = IF res.ok THEN NoHandle ELSE res.handle]
    /\ UNCHANGED <<raws, refs>>

(* The handle in slot h goes out of scope, at the end of its block or     *)
(* while a panic unwinds: its destructor runs.                             *)
ScopeExit(op, h, res) ==
    /\ ~aborted
    /\ Returned(op, h, handles[h], handles[h].ty, 0, 0, res)
    /\ handles' = [handles EXCEPT ![h] = NoHandle]
    /\ UNCHANGED <<raws, refs>>

IsKind(h, kind) == handles[h].kind = kind

CanHandOut == Cardinality(raws \cup refs) < MaxRaws

UnifiedBoxNew ==
    \E ty \in Types : \E val \in ValuesOf(ty) : \E r \in Outcomes :
        Construct("UnifiedBox::new", ty, 0, val, UnifiedBox_new(B, ty, val, r))

UnifiedBoxUninitialized ==
    \E ty \in Types : \E r \in Outcomes :
        Construct("UnifiedBox::uninitialized", ty, 0, 0,
                  UnifiedBox_uninitialized(B, ty, r))

UnifiedBoxWrite ==
    \E h \in Slots : \E v \in 0 .. MaxVal : \E ub \in UbOutcomes :
        /\ ~panicked /\ ~aborted /\ IsKind(h, "UnifiedBox") /\ v \in ValuesOf(handles[h].ty)
        /\ Returned("UnifiedBox::deref_mut", h, handles[h], handles[h].ty, 0, v,
                    UnifiedBox_deref_mut(B, handles[h], v, ub))
        /\ UNCHANGED <<handles, raws, refs>>

UnifiedBoxIntoUnified ==
    \E h \in Slots :
        /\ ~panicked /\ ~aborted /\ IsKind(h, "UnifiedBox") /\ CanHandOut
        /\ LET res == UnifiedBox_into_unified(B, handles[h]) IN
           /\ Returned("UnifiedBox::into_unified", h, handles[h], handles[h].ty, 0, 0, res)
           /\ raws' = raws \cup {[kind |-> "UnifiedBox", ty |-> handles[h].ty,
                                  ptr |-> res.ptr]}
        /\ handles' = [handles EXCEPT ![h] = NoHandle]
        /\ UNCHANGED refs

UnifiedBoxLeak ==
    \E h \in Slots : \E ub \in UbOutcomes :
        /\ ~panicked /\ ~aborted /\ IsKind(h, "UnifiedBox") /\ CanHandOut
        /\ LET res == UnifiedBox_leak(B, handles[h], ub) IN
           /\ Returned("UnifiedBox::leak", h, handles[h], handles[h].ty, 0, 0, res)
           /\ refs' = IF res.abort THEN refs
                      ELSE refs \cup {[kind |-> "UnifiedBox", ty |-> handles[h].ty,
                                        ptr |-> res.ptr]}
        /\ handles' = [handles EXCEPT ![h] = NoHandle]
        /\ UNCHANGED raws

(* from_raw / from_unified are unsafe: the caller passes a pointer that a  *)
(* box of the same kind and type gave out (src: by into_raw or by leak),   *)
(* and passes it once.                                                     *)
Adopt(op, src, x, handle) ==
    /\ ~panicked /\ ~aborted /\ FreeSlots # {}
    /\ x \in (IF src = "raw" THEN raws ELSE refs)
    /\ Returned(op, FreeSlot, NoHandle, x.ty, 0, 0,
                Ret(B, TRUE, "", handle, x.ptr, FALSE))
    /\ handles' = [handles EXCEPT ![FreeSlot] = handle]
    /\ raws' = IF src = "raw" THEN raws \ {x} ELSE raws
    /\ refs' = IF src = "ref" THEN refs \ {x} ELSE refs

UnifiedBoxFromRaw ==
    \E src \in {"raw", "ref"} : \E x \in raws \cup refs :
        /\ x.kind = "UnifiedBox"
        /\ Adopt("UnifiedBox::from_raw", src, x, UnifiedBox_from_raw(x.ty, x.ptr))

UnifiedBoxFromUnified ==
    \E x \in raws :
        /\ x.kind = "UnifiedBox"
        /\ Adopt("UnifiedBox::from_unified", "raw", x,
                 UnifiedBox_from_unified(x.ty, x.ptr))

UnifiedBoxDrop ==
    \E h \in Slots : \E r \in Outcomes :
        /\ IsKind(h, "UnifiedBox")
        /\ Release("UnifiedBox::drop", h, UnifiedBox_drop(B, handles[h], r))

UnifiedBoxScopeExit ==
    \E h \in Slots : \E r \in Outcomes :
        /\ IsKind(h, "UnifiedBox")
        /\ ScopeExit("UnifiedBox::Drop", h, UnifiedBox_Drop(B, handles[h], r))

LockedBoxNew ==
    \E ty \in Types : \E val \in ValuesOf(ty) : \E r \in Outcomes :
        Construct("LockedBox::new", ty, 0, val, LockedBox_new(B, ty, val, r))

LockedBoxUninitialized ==
    \E ty \in Types : \E r \in Outcomes :
        Construct("LockedBox::uninitialized", ty, 0, 0,
                  LockedBox_uninitialized(B, ty, r))

LockedBoxWrite ==
    \E h \in Slots : \E v \in 0 .. MaxVal : \E ub \in UbOutcomes :
        /\ ~panicked /\ ~aborted /\ IsKind(h, "LockedBox") /\ v \in ValuesOf(handles[h].ty)
        /\ Returned("LockedBox::deref_mut", h, handles[h], handles[h].ty, 0, v,
                    LockedBox_deref_mut(B, handles[h], v, ub))
        /\ UNCHANGED <<handles, raws, refs>>

LockedBoxIntoRaw ==
    \E h \in Slots :
        /\ ~panicked /\ ~aborted /\ IsKind(h, "LockedBox") /\ CanHandOut
        /\ LET res == LockedBox_into_raw(B, handles[h]) IN
           /\ Returned("LockedBox::into_raw", h, handles[h], handles[h].ty, 0, 0, res)
           /\ raws' = raws \cup {[kind |-> "LockedBox", ty |-> handles[h].ty,
                                  ptr |-> res.ptr]}
        /\ handles' = [handles EXCEPT ![h] = NoHandle]
        /\ UNCHANGED refs

LockedBoxLeak ==
    \E h \in Slots : \E ub \in UbOutcomes :
        /\ ~panicked /\ ~aborted /\ IsKind(h, "LockedBox") /\ CanHandOut
        /\ LET res == LockedBox_leak(B, handles[h], ub) IN
           /\ Returned("LockedBox::leak", h, handles[h], handles[h].ty, 0, 0, res)
           /\ refs' = IF res.abort THEN refs
                      ELSE refs \cup {[kind |-> "LockedBox", ty |-> handles[h].ty,
                                        ptr |-> res.ptr]}
        /\ handles' = [handles EXCEPT ![h] = NoHandle]
        /\ UNCHANGED raws

LockedBoxFromRaw ==
    \E src \in {"raw", "ref"} : \E x \in raws \cup refs :
        /\ x.kind = "LockedBox"
        /\ Adopt("LockedBox::from_raw", src, x, LockedBox_from_raw(x.ty, x.ptr))

LockedBoxDrop ==
    \E h \in Slots : \E r \in Outcomes :
        /\ IsKind(h, "LockedBox")
        /\ Release("LockedBox::drop", h, LockedBox_drop(B, handles[h], r))

LockedBoxScopeExit ==
    \E h \in Slots : \E r \in Outcomes :
        /\ IsKind(h, "LockedBox")
        /\ ScopeExit("LockedBox::Drop", h, LockedBox_Drop(B, handles[h], r))

(* Element counts a caller asks for: small ones, and two whose byte count  *)
(* does not fit in a usize for an 8-byte element.                          *)
Sizes == (0 .. MaxLen) \cup {UsizeMax - 1}

Slices(ty) == UNION {[1 .. n -> ValuesOf(ty)] : n \in 0 .. MaxLen}

UnifiedBufferNew ==
    \E ty \in Types : \E value \in ValuesOf(ty) : \E size \in Sizes : \E r \in Outcomes :
        Construct("UnifiedBuffer::new", ty, size, value,
                  UnifiedBuffer_new(B, ty, value, size, r))

UnifiedBufferFromSlice ==
    \E ty \in Types : \E slice \in Slices(ty) : \E r \in Outcomes :
        Construct("UnifiedBuffer::from_slice", ty, Len(slice), slice,
                  UnifiedBuffer_from_slice(B, ty, slice, r))

UnifiedBufferUninitialized ==
    \E ty \in Types : \E size \in Sizes : \E r \in Outcomes :
        Construct("UnifiedBuffer::uninitialized", ty, size, 0,
                  UnifiedBuffer_uninitialized(B, ty, size, r))

UnifiedBufferDrop ==
    \E h \in Slots : \E r \in Outcomes :
        /\ IsKind(h, "UnifiedBuffer")
        /\ Release("UnifiedBuffer::drop", h, UnifiedBuffer_drop(B, handles[h], r))

UnifiedBufferScopeExit ==
    \E h \in Slots : \E r \in Outcomes :
        /\ IsKind(h, "UnifiedBuffer")
        /\ ScopeExit("UnifiedBuffer::Drop", h,
                     UnifiedBuffer_Drop(B, handles[h], r))

(* Two boxes of one kind and element type compared with ==, <, <=, >=, >,  *)
(* cmp and partial_cmp; last.ret holds what the seven calls returned, and  *)
(* last.abort tells that one of them aborted the process instead.          *)
Compared(op, a, b, ret) ==
    /\ ~panicked /\ ~aborted
    /\ handles[a].ty = handles[b].ty
    /\ last' = [op |-> op, h |-> a, arg |-> handles[b], ty |-> handles[a].ty,
                size |-> 0, val |-> 0, ok |-> TRUE, err |-> "",
                handle |-> handles[a], ptr |-> Null, panic |-> FALSE,
                abort |-> \E m \in DOMAIN ret : ret[m].abort, ret |-> ret]
    /\ backend' = B
    /\ aborted' = \E m \in DOMAIN ret : ret[m].abort
    /\ UNCHANGED <<handles, raws, refs, panicked, promiseVars, transferVars>>

UnifiedBoxCompare ==
    \E a \in Slots : \E b \in Slots : \E ub \in UbOutcomes :
    \E uninit \in UninitReads :
        /\ IsKind(a, "UnifiedBox") /\ IsKind(b, "UnifiedBox")
        /\ Compared("UnifiedBox::cmp", a, b,
                    [eq |-> UnifiedBox_eq(B, handles[a], handles[b], ub, uninit),
                     partial_cmp |-> UnifiedBox_partial_cmp(B, handles[a], handles[b], ub, uninit),
                     lt |-> UnifiedBox_lt(B, handles[a], handles[b], ub, uninit),
                     le |-> UnifiedBox_le(B, handles[a], handles[b], ub, uninit),
                     ge |-> UnifiedBox_ge(B, handles[a], handles[b], ub, uninit),
                     gt |-> UnifiedBox_gt(B, handles[a], handles[b], ub, uninit),
                     cmp |-> UnifiedBox_cmp(B, handles[a], handles[b], ub, uninit)])

LockedBoxCompare ==
    \E a \in Slots : \E b \in Slots : \E ub \in UbOutcomes :
    \E uninit \in UninitReads :
        /\ IsKind(a, "LockedBox") /\ IsKind(b, "LockedBox")
        /\ Compared("LockedBox::cmp", a, b,
                    [eq |-> LockedBox_eq(B, handles[a], handles[b], ub, uninit),
                     partial_cmp |-> LockedBox_partial_cmp(B, handles[a], handles[b], ub, uninit),
                     lt |-> LockedBox_lt(B, handles[a], handles[b], ub, uninit),
                     le |-> LockedBox_le(B, handles[a], handles[b], ub, uninit),
                     ge |-> LockedBox_ge(B, handles[a], handles[b], ub, uninit),
                     gt |-> LockedBox_gt(B, handles[a], handles[b], ub, uninit),
                     cmp |-> LockedBox_cmp(B, handles[a], handles[b], ub, uninit)])

(* buffer[i] = v for an index inside the slice.                           *)
UnifiedBufferWrite ==
    \E h \in Slots : \E i \in 0 .. MaxLen - 1 : \E v \in 0 .. MaxVal :
        /\ ~panicked /\ ~aborted /\ IsKind(h, "UnifiedBuffer")
        /\ i < UnifiedBuffer_deref_mut(handles[h]).len
        /\ v \in ValuesOf(handles[h].ty)
        /\ Returned("UnifiedBuffer::index_mut", h, handles[h], handles[h].ty, i, v,
                    Ret(UnifiedBuffer_index_mut(B, handles[h], i, v), TRUE, "",
                        handles[h], Null, FALSE))
        /\ UNCHANGED <<handles, raws, refs>>

(* let ptr = buffer.as_unified_ptr(); let len = buffer.len();              *)
(* mem::forget(buffer): the caller keeps the parts, no destructor runs.    *)
UnifiedBufferForget ==
    \E h \in Slots :
        /\ ~panicked /\ ~aborted /\ IsKind(h, "UnifiedBuffer") /\ CanHandOut
        /\ LET ptr == UnifiedBuffer_as_unified_ptr(handles[h])
               len == UnifiedBuffer_len(handles[h])
           IN  /\ Returned("UnifiedBuffer::as_unified_ptr", h, handles[h],
                           handles[h].ty, len, 0,
                           Ret(B, TRUE, "", NoHandle, ptr, FALSE))
               /\ raws' = raws \cup {[kind |-> "UnifiedBuffer", ty |-> handles[h].ty,
                                      ptr |-> ptr, capacity |-> len]}
        /\ handles' = [handles EXCEPT ![h] = NoHandle]
        /\ UNCHANGED refs

(* from_raw_parts is unsafe: the caller passes the parts of a buffer it    *)
(* forgot, and passes them once.  last.ptr and last.size are the pointer   *)
(* and the capacity passed.                                                *)
UnifiedBufferFromRawParts ==
    \E x \in raws :
        /\ x.kind = "UnifiedBuffer"
        /\ ~panicked /\ ~aborted /\ FreeSlots # {}
        /\ LET buffer == UnifiedBuffer_from_raw_parts(x.ty, x.ptr, x.capacity) IN
           /\ Returned("UnifiedBuffer::from_raw_parts", FreeSlot, NoHandle, x.ty,
                       x.capacity, 0, Ret(B, TRUE, "", buffer, x.ptr, FALSE))
           /\ handles' = [handles EXCEPT ![FreeSlot] = buffer]
        /\ raws' = raws \ {x}
        /\ UNCHANGED refs

FreePromiseSlots == {p \in PromiseSlots : promises[p] = NoPromise}

FreePromiseSlot == CHOOSE p \in FreePromiseSlots : \A q \in FreePromiseSlots : p <= q

PendingIn(ps, p) == ps[p].kind = "Promise"

Pending(p) == PendingIn(promises, p)

(* The caller's bookkeeping after a call on the promise in slot p.         *)
PromiseReturned(op, p, stream, res, ret) ==
    /\ promises' = [promises EXCEPT ![p] = res.self]
    /\ invoked' = invoked \o res.calls
    /\ last' = [op |-> op, h |-> p, arg |-> promises[p], stream |-> stream, ret |-> ret]
    /\ UNCHANGED <<handleVars, transferVars>>

PromiseNew ==
    \E stream \in Streams :
        /\ FreePromiseSlots # {} /\ closures < MaxClosures
        /\ LET f == closures + 1
               promise == Promise_new(stream, f)
           IN  PromiseReturned("Promise::new", FreePromiseSlot, stream,
                               [self |-> promise, calls |-> <<>>], promise)
        /\ closures' = closures + 1

PromiseExecute ==
    \E p \in PromiseSlots : \E stream \in Streams :
        /\ Pending(p)
        /\ LET executor == Executor_from_stream(stream) IN
           PromiseReturned("Promise::execute", p, stream,
                           Promise_execute(promises[p], executor), executor)
        /\ UNCHANGED closures

PromisePoll ==
    \E p \in PromiseSlots :
        /\ Pending(p)
        /\ LET res == Promise_poll(promises[p]) IN
           PromiseReturned("Promise::poll", p, promises[p].inner, res, res.ret)
        /\ UNCHANGED closures

PromiseScopeExit ==
    \E p \in PromiseSlots :
        /\ Pending(p)
        /\ PromiseReturned("Promise::Drop", p, promises[p].inner,
                           Promise_Drop(promises[p]), NoPromise)
        /\ UNCHANGED closures

(* The caller's bookkeeping after a transfer call returned res.            *)
TransferReturned(op, dst, src, stream, res) ==
    /\ last' = [op |-> op, dst |-> dst, src |-> src, stream |-> stream,
                ok |-> res.ok, err |-> res.err]
    /\ UNCHANGED <<handleVars, promiseVars>>

SyncCopyFrom ==
    \E self \in Endpoints : \E source \in Endpoints \ {self} : \E r \in Outcomes :
        LET res == copy_from(mem, self, source, r) IN
        /\ mem' = res.mem
        /\ TransferReturned("copy_from", self, source, 0, res)
        /\ UNCHANGED <<queues, completed, submitted>>

SyncCopyTo ==
    \E self \in Endpoints : \E dest \in Endpoints \ {self} : \E r \in Outcomes :
        LET res == copy_to(mem, self, dest, r) IN
        /\ mem' = res.mem
        /\ TransferReturned("copy_to", dest, self, 0, res)
        /\ UNCHANGED <<queues, completed, submitted>>

Enqueued(op, dst, src, stream, res) ==
    /\ queues' = [queues EXCEPT ![stream] = res.queue]
    /\ submitted' = submitted + 1
    /\ TransferReturned(op, dst, src, stream, res)
    /\ UNCHANGED <<mem, completed>>

AsyncCopyFrom ==
    \E self \in Endpoints : \E source \in Endpoints \ {self} :
    \E stream \in Streams : \E r \in Outcomes :
        /\ submitted < MaxCopies
        /\ Enqueued("async_copy_from", self, source, stream,
                    async_copy_from(mem, queues[stream], submitted + 1, self, source,
                                    stream, r))

AsyncCopyTo ==
    \E self \in Endpoints : \E dest \in Endpoints \ {self} :
    \E stream \in Streams : \E r \in Outcomes :
        /\ submitted < MaxCopies
        /\ Enqueued("async_copy_to", dest, self, stream,
                    async_copy_to(mem, queues[stream], submitted + 1, self, dest,
                                  stream, r))

(* A stream runs the next copy of its queue, whatever the host does.       *)
StreamRun ==
    \E stream \in Streams :
        /\ queues[stream] # <<>>
        /\ LET k == StreamNext(queues[stream])
               c == queues[stream][k]
           IN  /\ mem' = [mem EXCEPT ![c.dst] = mem[c.src]]
               /\ completed' = Append(completed, c)
               /\ queues' = [queues EXCEPT ![stream] = Without(@, k)]
               /\ last' = [op |-> "stream", dst |-> c.dst, src |-> c.src,
                           stream |-> stream, ok |-> TRUE, err |-> ""]
        /\ UNCHANGED <<submitted, handleVars, promiseVars>>

(* The i32 slices a caller passes to copy.                                 *)
I32Slices == UNION {[1 .. n -> (0 - MaxVal) .. MaxVal] : n \in 0 .. MaxLen}

(* A caller about to copy: it holds an executor and the two slices.        *)
InitExecutor ==
    /\ InitState
    /\ \E stream \in Streams : \E srcs \in I32Slices : \E dsts \in I32Slices :
           last = [op |-> "Executor::from_stream",
                   executor |-> Executor_from_stream(stream),
                   srcs |-> srcs, dsts |-> dsts]

ExecutorCopy ==
    /\ last.op = "Executor::from_stream"
    /\ last' = [op |-> "Executor::copy", executor |-> last.executor,
                srcs |-> last.srcs, dsts |-> last.dsts,
                ret |-> Executor_copy(last.executor, last.srcs, last.dsts)]
    /\ UNCHANGED <<handleVars, promiseVars, transferVars>>

Next ==
    \/ UnifiedBoxNew
    \/ UnifiedBoxUninitialized
    \/ UnifiedBoxWrite
    \/ UnifiedBoxIntoUnified
    \/ UnifiedBoxLeak
    \/ UnifiedBoxFromRaw
    \/ UnifiedBoxFromUnified
    \/ UnifiedBoxDrop
    \/ UnifiedBoxScopeExit
    \/ LockedBoxNew
    \/ LockedBoxUninitialized
    \/ LockedBoxWrite
    \/ LockedBoxIntoRaw
    \/ LockedBoxLeak
    \/ LockedBoxFromRaw
    \/ LockedBoxDrop
    \/ LockedBoxScopeExit
    \/ UnifiedBufferNew
    \/ UnifiedBufferFromSlice
    \/ UnifiedBufferUninitialized
    \/ UnifiedBufferDrop
    \/ UnifiedBufferScopeExit

Spec == Init /\ [][Next]_vars

(* The buffer seen as a slice: construction, indexed stores, taking it     *)
(* apart and putting it together again, release.                           *)
NextBuffer ==
    \/ UnifiedBufferNew
    \/ UnifiedBufferFromSlice
    \/ UnifiedBufferUninitialized
    \/ UnifiedBufferWrite
    \/ UnifiedBufferForget
    \/ UnifiedBufferFromRawParts
    \/ UnifiedBufferDrop
    \/ UnifiedBufferScopeExit

SpecBuffer == Init /\ [][NextBuffer]_vars

(* Boxes made by new, stored to, compared and dropped.                     *)
NextCompare ==
    \/ UnifiedBoxNew
    \/ UnifiedBoxWrite
    \/ UnifiedBoxCompare
    \/ UnifiedBoxScopeExit
    \/ LockedBoxNew
    \/ LockedBoxWrite
    \/ LockedBoxCompare
    \/ LockedBoxScopeExit

SpecCompare == Init /\ [][NextCompare]_vars

(* Promises made, polled, resolved and dropped.                            *)
NextPromise ==
    \/ PromiseNew
    \/ PromiseExecute
    \/ PromisePoll
    \/ PromiseScopeExit

SpecPromise == Init /\ [][NextPromise]_vars

(* Blocking and enqueued copies between the endpoints, and the streams     *)
(* running what was enqueued.                                              *)
NextTransfer ==
    \/ SyncCopyFrom
    \/ SyncCopyTo
    \/ AsyncCopyFrom
    \/ AsyncCopyTo
    \/ StreamRun

SpecTransfer == Init /\ [][NextTransfer]_vars

(* An executor copying between slices.                                     *)
NextExecutor == ExecutorCopy

SpecExecutor == InitExecutor /\ [][NextExecutor]_vars

(* ------------------------- vocabulary of the claims -------------------- *)
ExplicitReleaseOps == {"LockedBox::drop", "UnifiedBox::drop", "UnifiedBuffer::drop"}

ImplicitReleaseOps == {"LockedBox::Drop", "UnifiedBox::Drop", "UnifiedBuffer::Drop"}

PtrOf(hd) ==
    IF hd.kind = "UnifiedBuffer" THEN hd.buf
    ELSE IF hd.kind = "none" THEN Null ELSE hd.ptr

RegionOf(kind) == IF kind = "LockedBox" THEN "Locked" ELSE "Unified"

(* The handle's pointer is an allocation the driver returned.              *)
Real(be, hd) == PtrOf(hd) \in DOMAIN be.heap

(* What the host finds behind the handle: capacity elements behind a       *)
(* buffer (its slice is made from a non-null pointer), one element behind  *)
(* a box (&*self.ptr.as_raw(), which on a null pointer has the outcome ub).*)
Contents(be, hd, ub) ==
    IF hd.kind = "UnifiedBuffer"
    THEN [abort |-> FALSE,
          val |-> [i \in 0 .. hd.capacity - 1 |-> ReadElem(be, hd.ty, hd.buf, i)]]
    ELSE IF AbortsAt(hd.ptr, ub) THEN [abort |-> TRUE]
    ELSE [abort |-> FALSE, val |-> [i \in {0} |-> ReadElem(be, hd.ty, hd.ptr, 0)]]

FailedFree(be) == \E i \in DOMAIN be.calls : be.calls[i].fn = "free" /\ ~be.calls[i].ok

Owners(a) ==
    {<<"handle", h>> : h \in {g \in Slots : PtrOf(handles[g]) = a}}
        \cup {<<"raw", x>> : x \in {y \in raws : y.ptr = a}}
        \cup {<<"ref", x>> : x \in {y \in refs : y.ptr = a}}

OwnerKinds(a) ==
    {handles[h].kind : h \in {g \in Slots : PtrOf(handles[g]) = a}}
        \cup {x.kind : x \in {y \in raws \cup refs : y.ptr = a}}

(* C1: when the backend free fails, the explicit release of a LockedBox,   *)
(* UnifiedBox or UnifiedBuffer returns Err((e, handle)) with e the         *)
(* backend's error and handle equal to the one passed in (same pointer,    *)
(* same capacity), reading the same contents as before the call; the       *)
(* allocation stays live and the call made exactly one free.               *)
C1_FailedReleaseReturnsHandle ==
    [][(last'.op \in ExplicitReleaseOps /\ FailedFree(backend'))
        => /\ ~last'.ok
           /\ last'.err = backend'.calls[1].err
           /\ last'.err \in BackendErrors
           /\ last'.handle = handles[last'.h]
           /\ handles'[last'.h] = last'.handle
           /\ \A ub \in UbOutcomes :
                  /\ ~Contents(backend, handles[last'.h], ub).abort
                  /\ Contents(backend', last'.handle, ub) = Contents(backend, handles[last'.h], ub)
           /\ backend'.heap[PtrOf(last'.handle)].live
           /\ Len(backend'.calls) = 1
           /\ ~panicked']_vars

C1_Witness ==
    /\ last.op = "UnifiedBuffer::drop"
    /\ ~last.ok
    /\ FailedFree(backend)
    /\ last.handle.capacity = MaxLen
    /\ handles[last.h] = last.arg
    /\ \A i \in 0 .. MaxLen - 1 : ReadElem(backend, last.handle.ty, last.handle.buf, i) >= 0

(* C2: the destructor of a handle that owns a real allocation makes the    *)
(* one free call the explicit release makes (same region, same pointer),   *)
(* and it panics exactly when that free fails: it never returns normally   *)
(* after a failed free.  The panic leaves the program unwinding, and the   *)
(* process is aborted only by such a panic (one raised while unwinding).   *)
C2_ImplicitReleasePanicsOnFailure ==
    (last.op \in ImplicitReleaseOps /\ Real(backend, last.arg))
        => /\ Len(backend.calls) = 1
           /\ backend.calls[1].fn = "free"
           /\ backend.calls[1].region = RegionOf(last.arg.kind)
           /\ backend.calls[1].arg = PtrOf(last.arg)
           /\ last.panic = ~backend.calls[1].ok
           /\ last.panic => panicked
           /\ aborted => last.panic
           /\ backend.heap[PtrOf(last.arg)].live = ~backend.calls[1].ok

C2_Witness ==
    /\ last.op \in ImplicitReleaseOps
    /\ Real(backend, last.arg)
    /\ FailedFree(backend)
    /\ last.panic
    /\ panicked

(* C3 as stated: every pointer passed to a region's free is a live         *)
(* allocation of that region (returned by its allocate, not freed before), *)
(* no freed allocation has an owner, and at every point every live         *)
(* allocation has exactly one owner (a handle, a raw pointer or a leaked   *)
(* reference) of the allocating region.                                    *)
C3_PairedFreeSingleOwner ==
    /\ backend.wild = {}
    /\ \A a \in DOMAIN backend.heap :
        /\ \A k \in OwnerKinds(a) : RegionOf(k) = backend.heap[a].region
        /\ ~backend.heap[a].live => Owners(a) = {}
        /\ backend.heap[a].live => Cardinality(Owners(a)) = 1

(* The allocation at a is live and nothing owns it.                        *)
Orphaned(be, a) == a \in DOMAIN be.heap /\ be.heap[a].live /\ Owners(a) = {}

(* C3, amended: every pointer passed to a region's free is a live          *)
(* allocation of that region, no freed allocation has an owner, no         *)
(* allocation ever has two owners, and every live allocation has exactly   *)
(* one owner of the allocating region, except the allocation whose         *)
(* implicit release failed: a step leaves a live allocation without an     *)
(* owner only when it is the destructor of the handle that owned it, the   *)
(* free of that pointer failed and the destructor panicked.                *)
C3_SingleOwnerUnlessImplicitReleaseFailed ==
    [][/\ backend'.wild = {}
       /\ \A a \in DOMAIN backend'.heap :
           /\ Cardinality(Owners(a)') <= 1
           /\ \A k \in OwnerKinds(a)' : RegionOf(k) = backend'.heap[a].region
           /\ ~backend'.heap[a].live => Owners(a)' = {}
           /\ (Orphaned(backend, a)' /\ ~Orphaned(backend, a))
                  => /\ last'.op \in ImplicitReleaseOps
                     /\ last'.panic
                     /\ PtrOf(last'.arg) = a
                     /\ Owners(a) = {<<"handle", last'.h>>}
                     /\ FailedFree(backend')]_vars

(* A destructor's free has failed: its allocation is live with no owner,   *)
(* beside a live allocation that a handle owns.                            *)
C3_Witness ==
    /\ last.op \in ImplicitReleaseOps
    /\ last.panic
    /\ Orphaned(backend, PtrOf(last.arg))
    /\ \E a \in DOMAIN backend.heap : \E h \in Slots :
           /\ backend.heap[a].live
           /\ Owners(a) = {<<"handle", h>>}

BoxConstructors ==
    {"LockedBox::new", "LockedBox::uninitialized",
     "UnifiedBox::new", "UnifiedBox::uninitialized"}

BufferConstructors ==
    {"UnifiedBuffer::new", "UnifiedBuffer::from_slice", "UnifiedBuffer::uninitialized"}

(* count * size_of::<T>() does not fit in a usize.                         *)
Overflows(ty, size) == size * SizeOf(ty) > UsizeMax

(* The pointer a destructor leaves in a box that owned an allocation.      *)
ReleasedBoxMarker(kind) ==
    IF kind = "LockedBox"
    THEN LockedBox_Drop(B, [kind |-> kind, ty |-> "u64", ptr |-> 16], "Ok").handle.ptr
    ELSE UnifiedBox_Drop(B, [kind |-> kind, ty |-> "u64", ptr |-> 16], "Ok").handle.ptr

(* The pointer the destructor leaves in a buffer that owned an allocation. *)
ReleasedBufferMarker ==
    UnifiedBuffer_Drop(B, [kind |-> "UnifiedBuffer", ty |-> "u64", buf |-> 16,
                           capacity |-> 1], "Ok").handle.buf

(* C4: when count * size_of::<T>() overflows usize, UnifiedBuffer::new and *)
(* UnifiedBuffer::uninitialized return Err(InvalidMemoryAllocation), make  *)
(* no driver call, and leave the heap and the caller's handles as they     *)
(* were.                                                                   *)
C4_OverflowBeforeBackend ==
    [][(/\ last'.op \in {"UnifiedBuffer::new", "UnifiedBuffer::uninitialized"}
        /\ Overflows(last'.ty, last'.size))
        => /\ ~last'.ok
           /\ last'.err = InvalidMemoryAllocation
           /\ last'.handle = NoHandle
           /\ backend'.calls = <<>>
           /\ backend'.heap = backend.heap
           /\ backend'.next = backend.next
           /\ handles' = handles
           /\ ~panicked']_vars

C4_Witness ==
    /\ last.op = "UnifiedBuffer::new"
    /\ last.size = UsizeMax - 1
    /\ SizeOf(last.ty) = 8
    /\ last.err = InvalidMemoryAllocation

(* C5 as stated: a zero-sized box is built without a driver call and its   *)
(* pointer differs from the one a released box is left with.               *)
C5_ZstPointerDistinctFromReleased ==
    (last.op \in BoxConstructors /\ SizeOf(last.ty) = 0)
        => /\ last.ok
           /\ backend.calls = <<>>
           /\ last.handle.ptr # ReleasedBoxMarker(last.handle.kind)

(* C5 amended: a zero-sized box is built without a driver call and its    *)
(* pointer is the null pointer, the same value the destructor leaves in a  *)
(* released box; releasing it explicitly is Ok(()) without a free.         *)
C5_ZstBoxIsNullWithoutAllocation ==
    (last.op \in BoxConstructors /\ SizeOf(last.ty) = 0)
        => /\ last.ok
           /\ backend.calls = <<>>
           /\ handles[last.h] = last.handle
           /\ last.handle.ptr = Null
           /\ last.handle.ptr = ReleasedBoxMarker(last.handle.kind)
           /\ ~Real(backend, last.handle)
           /\ \A r \in Outcomes :
                LET d == IF last.handle.kind = "LockedBox"
                         THEN LockedBox_drop(B, last.handle, r)
                         ELSE UnifiedBox_drop(B, last.handle, r)
                IN  d.ok /\ d.be.calls = <<>> /\ ~d.panic

C5_Witness ==
    /\ last.op = "UnifiedBox::new"
    /\ SizeOf(last.ty) = 0
    /\ last.ok
    /\ handles[last.h].ptr = Null
    /\ \E a \in DOMAIN backend.heap : backend.heap[a].live

(* C6: a UnifiedBuffer built with a zero-sized element type or with count  *)
(* 0 makes no driver call, owns no allocation, holds a non-null aligned    *)
(* pointer different from the null a released buffer holds, and its slice  *)
(* has the requested length.                                               *)
C6_EmptyBufferSentinel ==
    (/\ last.op \in BufferConstructors
     /\ last.ok
     /\ (SizeOf(last.ty) = 0 \/ last.size = 0))
        => /\ backend.calls = <<>>
           /\ ~Real(backend, last.handle)
           /\ last.handle.buf # Null
           /\ last.handle.buf # ReleasedBufferMarker
           /\ last.handle.buf % AlignOf(last.ty) = 0
           /\ UnifiedBuffer_deref(last.handle).data = last.handle.buf
           /\ UnifiedBuffer_deref(last.handle).len = last.size
           /\ handles[last.h] = last.handle

C6_Witness ==
    /\ last.op = "UnifiedBuffer::new"
    /\ last.ok
    /\ SizeOf(last.ty) = 0
    /\ last.size = MaxLen
    /\ UnifiedBuffer_deref(handles[last.h]).len = MaxLen

(* C7: for a UnifiedBuffer of capacity 0 or of a zero-sized element type   *)
(* the explicit release returns Ok(()) and neither it nor the destructor   *)
(* calls the driver, whatever the driver would have answered.              *)
C7_EmptyBufferReleaseIsNoop ==
    (/\ last.op \in {"UnifiedBuffer::drop", "UnifiedBuffer::Drop"}
     /\ (last.arg.capacity = 0 \/ SizeOf(last.arg.ty) = 0))
        => /\ last.ok
           /\ last.handle = (IF last.op = "UnifiedBuffer::drop" THEN NoHandle
                             ELSE [last.arg EXCEPT !.capacity = 0])
           /\ backend.calls = <<>>
           /\ backend.wild = {}
           /\ ~last.panic
           /\ ~aborted
           /\ handles[last.h] = NoHandle
           /\ \A r \in Outcomes :
                /\ UnifiedBuffer_drop(B, last.arg, r).ok
                /\ UnifiedBuffer_drop(B, last.arg, r).be.calls = <<>>
                /\ UnifiedBuffer_Drop(B, last.arg, r).be.calls = <<>>
                /\ ~UnifiedBuffer_Drop(B, last.arg, r).panic

C7_Witness ==
    /\ last.op = "UnifiedBuffer::drop"
    /\ last.arg.capacity = 0
    /\ SizeOf(last.arg.ty) = 8
    /\ last.arg.buf = Dangling(last.arg.ty)
    /\ last.ok

FailedMalloc(be) == \E i \in DOMAIN be.calls : be.calls[i].fn = "malloc" /\ ~be.calls[i].ok

IntoRawOps == {"LockedBox::into_raw", "UnifiedBox::into_unified"}

FromRawOps == {"LockedBox::from_raw", "UnifiedBox::from_raw", "UnifiedBox::from_unified"}

LeakOps == {"LockedBox::leak", "UnifiedBox::leak"}

FreesOf(be, ptr) == {i \in DOMAIN be.calls : be.calls[i].fn = "free" /\ be.calls[i].arg = ptr}

(* C8: when the driver's allocate fails, a constructor returns exactly the *)
(* driver's error, does not panic, yields no handle, writes nothing, and   *)
(* makes no further driver call (no free).                                 *)
C8_AllocationFailurePropagates ==
    [][(/\ last'.op \in BoxConstructors \cup BufferConstructors
        /\ FailedMalloc(backend'))
        => /\ ~last'.ok
           /\ last'.err = backend'.calls[1].err
           /\ last'.err \in BackendErrors
           /\ last'.handle = NoHandle
           /\ Len(backend'.calls) = 1
           /\ backend'.heap = backend.heap
           /\ handles' = handles
           /\ ~panicked']_vars

C8_Witness ==
    /\ last.op = "UnifiedBuffer::from_slice"
    /\ last.size = MaxLen
    /\ ~last.ok
    /\ last.err = "LaunchFailed"
    /\ FailedMalloc(backend)
    /\ \E a \in DOMAIN backend.heap : backend.heap[a].live

(* C9: into_raw / into_unified returns the box's pointer unchanged, makes  *)
(* no driver call, leaves the heap (liveness and contents) as it was and   *)
(* the caller without the handle; releasing a box re-created from the      *)
(* pointer by from_raw / from_unified makes exactly one free call on it.   *)
C9_IntoRawKeepsAllocation ==
    [][/\ (last'.op \in IntoRawOps)
            => /\ last'.ptr = PtrOf(handles[last'.h])
               /\ backend'.calls = <<>>
               /\ backend'.heap = backend.heap
               /\ handles'[last'.h] = NoHandle
               /\ [kind |-> last'.arg.kind, ty |-> last'.arg.ty, ptr |-> last'.ptr] \in raws'
               /\ ~panicked'
       /\ (/\ last.op \in FromRawOps
           /\ last'.op \in ExplicitReleaseOps \cup ImplicitReleaseOps
           /\ last'.h = last.h
           /\ Real(backend, last.handle))
            => /\ Len(backend'.calls) = 1
               /\ FreesOf(backend', last.ptr) = {1}
               /\ backend'.calls[1].region = RegionOf(last.handle.kind)
               /\ backend'.heap[last.ptr].live = ~backend'.calls[1].ok
               /\ backend'.wild = {}]_vars

C9_Witness ==
    /\ last.op = "UnifiedBox::from_unified"
    /\ Real(backend, last.handle)
    /\ backend.heap[last.ptr].live
    /\ UnifiedBox_deref(backend, handles[last.h], "return", 0).val = MaxVal

(* C10: leak returns a reference to the box's value (its pointer), makes   *)
(* no driver call and leaves the heap as it was; from then on, as long as  *)
(* the reference has not been re-adopted by from_raw, no step passes the   *)
(* allocation to free or changes it, and only from_raw ends that.          *)
C10_LeakNeverReleases ==
    [][/\ (last'.op \in LeakOps)
            => /\ last'.ptr = PtrOf(handles[last'.h])
               /\ backend'.calls = <<>>
               /\ backend'.heap = backend.heap
               /\ handles'[last'.h] = NoHandle
               /\ [kind |-> last'.arg.kind, ty |-> last'.arg.ty, ptr |-> last'.ptr] \in refs'
               /\ \A ub \in UbOutcomes :
                      Contents(backend, handles[last'.h], ub)
                          = [abort |-> FALSE,
                             val |-> (0 :> ReadElem(backend', last'.ty, last'.ptr, 0))]
               /\ ~panicked'
       /\ \A x \in refs :
            /\ x \in refs'
                => /\ FreesOf(backend', x.ptr) = {}
                   /\ Real(backend, x) => /\ backend'.heap[x.ptr] = backend.heap[x.ptr]
                                          /\ backend'.heap[x.ptr].live
            /\ x \notin refs'
                => /\ last'.op \in {"LockedBox::from_raw", "UnifiedBox::from_raw"}
                   /\ last'.ptr = x.ptr
                   /\ backend'.calls = <<>>]_vars

(* C11: taking a UnifiedBuffer apart (as_unified_ptr, len, mem::forget)    *)
(* and at once passing the pointer and length obtained to from_raw_parts   *)
(* makes no driver call and leaves the heap as it was; the rebuilt buffer  *)
(* has the pointer and capacity of the original and its slice reads,       *)
(* element for element, what the original's read.  Releasing the rebuilt buffer next   *)
(* makes exactly one free, of that pointer, and no free in the run is of   *)
(* anything but a live allocation.                                         *)
C11_RawPartsRoundTrip ==
    [][/\ last'.op = "UnifiedBuffer::as_unified_ptr"
          => /\ backend'.calls = <<>>
             /\ backend'.heap = backend.heap
             /\ last'.ptr = handles[last'.h].buf
             /\ last'.size = handles[last'.h].capacity
             /\ handles'[last'.h] = NoHandle
       /\ (last.op = "UnifiedBuffer::as_unified_ptr"
              /\ last'.op = "UnifiedBuffer::from_raw_parts"
              /\ last'.ty = last.ty
              /\ last'.ptr = last.ptr
              /\ last'.size = last.size)
          => /\ backend'.calls = <<>>
             /\ backend'.heap = backend.heap
             /\ handles'[last'.h] = last'.handle
             /\ last'.handle.buf = last.arg.buf
             /\ last'.handle.capacity = last.arg.capacity
             /\ UnifiedBuffer_len(last'.handle) = UnifiedBuffer_len(last.arg)
             /\ UnifiedBuffer_as_slice(backend', last'.handle)
                    = UnifiedBuffer_as_slice(backend, last.arg)
       /\ (last.op = "UnifiedBuffer::from_raw_parts"
              /\ last'.op \in {"UnifiedBuffer::drop", "UnifiedBuffer::Drop"}
              /\ last'.h = last.h
              /\ Real(backend, last.handle))
          => /\ Len(backend'.calls) = 1
             /\ backend'.calls[1].fn = "free"
             /\ backend'.calls[1].arg = last.handle.buf
             /\ backend.heap[last.handle.buf].live
             /\ backend'.calls[1].ok => ~backend'.heap[last.handle.buf].live
       /\ backend'.wild = {}]_vars

(* A two-element u64 buffer holding different values has been rebuilt      *)
(* from its parts.                                                         *)
C11_Witness ==
    /\ last.op = "UnifiedBuffer::from_raw_parts"
    /\ last.handle.ty = "u64"
    /\ last.handle.capacity = MaxLen
    /\ handles[last.h] = last.handle
    /\ UnifiedBuffer_as_slice(backend, last.handle)[0] = 0
    /\ UnifiedBuffer_as_slice(backend, last.handle)[MaxLen - 1] = MaxVal

(* Every slot of the slice holds a value (none reads as uninitialized).    *)
Initialized(be, hd) ==
    \A i \in DOMAIN UnifiedBuffer_as_slice(be, hd) : UnifiedBuffer_as_slice(be, hd)[i] >= 0

(* C12: a successful UnifiedBuffer::new(value, count) returns a buffer     *)
(* whose slice has exactly count elements, each equal to value; an indexed *)
(* store of w at i into a fully initialized buffer gives the slice it had  *)
(* with element i replaced by w: same length, every other element as it    *)
(* was.                                                                    *)
C12_NewFillsAndStoreIsLocal ==
    [][/\ (last'.op = "UnifiedBuffer::new" /\ last'.ok)
          => /\ handles'[last'.h] = last'.handle
             /\ UnifiedBuffer_len(last'.handle) = last'.size
             /\ UnifiedBuffer_as_slice(backend', last'.handle)
                    = [i \in 0 .. last'.size - 1 |-> last'.val]
       /\ (last'.op = "UnifiedBuffer::index_mut"
              /\ Initialized(backend, handles[last'.h]))
          => /\ handles'[last'.h] = handles[last'.h]
             /\ UnifiedBuffer_len(handles'[last'.h]) = UnifiedBuffer_len(handles[last'.h])
             /\ UnifiedBuffer_as_slice(backend', handles'[last'.h])
                    = [UnifiedBuffer_as_slice(backend, handles[last'.h])
                           EXCEPT ![last'.size] = last'.val]]_vars

(* new(0, MaxLen) followed by a store of MaxVal at the last index: the     *)
(* slice reads 0 everywhere but there.                                     *)
C12_Witness ==
    /\ last.op = "UnifiedBuffer::index_mut"
    /\ last.ty = "u64"
    /\ last.size = MaxLen - 1
    /\ last.val = MaxVal
    /\ UnifiedBuffer_len(handles[last.h]) = MaxLen
    /\ UnifiedBuffer_as_slice(backend, handles[last.h])
           = [i \in 0 .. MaxLen - 1 |-> IF i = MaxLen - 1 THEN MaxVal ELSE 0]

(* The slots of the slice that have been written.                          *)
WrittenSlots(be, hd) ==
    {i \in DOMAIN UnifiedBuffer_as_slice(be, hd) : UnifiedBuffer_as_slice(be, hd)[i] >= 0}

(* C13: a successful UnifiedBuffer::uninitialized(n) for a type with a     *)
(* size returns a buffer of length and capacity n over one allocation of   *)
(* n elements, with no slot written.  An indexed store at i makes slot i   *)
(* hold the stored value and adds i, and only i, to the written slots;     *)
(* every other slot, written or not, and the length stay as they were, so  *)
(* once all n slots are written each holds the value last stored in it.    *)
C13_UninitializedSlotsAreIndependent ==
    [][/\ (last'.op = "UnifiedBuffer::uninitialized" /\ last'.ok /\ SizeOf(last'.ty) > 0)
          => /\ UnifiedBuffer_len(last'.handle) = last'.size
             /\ last'.handle.capacity = last'.size
             /\ WrittenSlots(backend', last'.handle) = {}
             /\ last'.size > 0
                  => /\ Len(backend'.calls) = 1
                     /\ backend'.calls[1].arg = last'.size * SizeOf(last'.ty)
                     /\ backend'.calls[1].ptr = last'.handle.buf
       /\ (last'.op = "UnifiedBuffer::index_mut" /\ SizeOf(last'.ty) > 0)
          => LET hd == handles[last'.h]
                 i == last'.size
             IN  /\ handles'[last'.h] = hd
                 /\ i < UnifiedBuffer_len(hd)
                 /\ UnifiedBuffer_as_slice(backend', hd)[i] = last'.val
                 /\ WrittenSlots(backend', hd) = WrittenSlots(backend, hd) \cup {i}
                 /\ \A j \in DOMAIN UnifiedBuffer_as_slice(backend, hd) :
                        j # i => UnifiedBuffer_as_slice(backend', hd)[j]
                                     = UnifiedBuffer_as_slice(backend, hd)[j]
                 /\ \A g \in Slots :
                        (g # last'.h /\ handles[g].kind = "UnifiedBuffer")
                            => UnifiedBuffer_as_slice(backend', handles'[g])
                                   = UnifiedBuffer_as_slice(backend, handles[g])]_vars

(* The store that wrote the last unwritten slot of a full-length buffer,   *)
(* the slots now holding different values.                                 *)
C13_Witness ==
    /\ last.op = "UnifiedBuffer::index_mut"
    /\ last.ty = "u64"
    /\ UnifiedBuffer_len(handles[last.h]) = MaxLen
    /\ WrittenSlots(backend, handles[last.h]) = 0 .. MaxLen - 1
    /\ last.size = 0
    /\ UnifiedBuffer_as_slice(backend, handles[last.h])[0] = MaxVal
    /\ UnifiedBuffer_as_slice(backend, handles[last.h])[MaxLen - 1] = 0
    /\ \E g \in Slots : g # last.h /\ handles[g].kind = "UnifiedBuffer"
                        /\ WrittenSlots(backend, handles[g]) = {}
                        /\ UnifiedBuffer_len(handles[g]) = MaxLen
                        /\ handles[g].ty = "u64"

(* C14: a successful UnifiedBuffer::from_slice(values) returns a buffer    *)
(* whose capacity and length are values.len() and whose element at every   *)
(* index i is values[i]; for an empty values it makes no driver call.      *)
C14_FromSliceCopiesEachElement ==
    [][(last'.op = "UnifiedBuffer::from_slice" /\ last'.ok)
          => /\ handles'[last'.h] = last'.handle
             /\ last'.handle.capacity = Len(last'.val)
             /\ UnifiedBuffer_len(last'.handle) = Len(last'.val)
             /\ \A i \in 0 .. Len(last'.val) - 1 :
                    UnifiedBuffer_as_slice(backend', last'.handle)[i] = last'.val[i + 1]
             /\ DOMAIN UnifiedBuffer_as_slice(backend', last'.handle)
                    = 0 .. Len(last'.val) - 1
             /\ Len(last'.val) = 0 => backend'.calls = <<>>]_vars

(* from_slice of a full-length slice whose elements differ.                *)
C14_Witness ==
    /\ last.op = "UnifiedBuffer::from_slice"
    /\ last.ok
    /\ last.ty = "u64"
    /\ Len(last.val) = MaxLen
    /\ last.val[1] = MaxVal
    /\ last.val[MaxLen] = 0
    /\ UnifiedBuffer_as_slice(backend, handles[last.h])[0] = MaxVal

CompareOps == {"UnifiedBox::cmp", "LockedBox::cmp"}

(* C15: comparing two LockedBoxes or two UnifiedBoxes of one element type  *)
(* with eq, lt, le, gt, ge, cmp or partial_cmp returns what the same       *)
(* comparison returns on the two stored values, whatever the two pointers  *)
(* are: equal values compare equal, different values unequal, a smaller    *)
(* value less; and a comparison changes neither box nor the heap.          *)
C15_ComparisonsFollowContents ==
    [][last'.op \in CompareOps
        => LET x == Contents(backend, handles[last'.h], "return").val[0]
               y == Contents(backend, last'.arg, "return").val[0]
               ret == last'.ret
           IN  /\ ~last'.abort
               /\ ret.eq.val = (x = y)
               /\ ret.lt.val = (x < y)
               /\ ret.le.val = (x <= y)
               /\ ret.gt.val = (x > y)
               /\ ret.ge.val = (x >= y)
               /\ ret.cmp.val = (IF x < y THEN "Less"
                                 ELSE IF x > y THEN "Greater" ELSE "Equal")
               /\ ret.partial_cmp.val = [some |-> TRUE, val |-> ret.cmp.val]
               /\ backend'.heap = backend.heap
               /\ backend'.calls = <<>>
               /\ handles' = handles]_vars

(* How many times the closure f has been called.                           *)
TimesInvoked(log, f) == Cardinality({i \in DOMAIN log : log[i].f = f})

(* C16: a Promise just made holds its stream token and closure and no      *)
(* closure has run; execute calls the promise's closure once, with the     *)
(* executor it was given, and takes the promise from the caller; a Promise *)
(* dropped while Pending is gone without any closure call.  No other step  *)
(* calls a closure, no closure is ever called twice, and a closure that    *)
(* has been called belongs to no Promise the caller still holds.           *)
C16_ClosureRunsOnceOnExecute ==
    [][/\ last'.op = "Promise::new"
          => /\ promises'[last'.h] = [kind |-> "Promise", inner |-> last'.stream,
                                      f |-> closures']
             /\ PendingIn(promises', last'.h)
             /\ invoked' = invoked
             /\ TimesInvoked(invoked', closures') = 0
       /\ last'.op = "Promise::execute"
          => /\ Pending(last'.h)
             /\ invoked' = Append(invoked, [f |-> promises[last'.h].f,
                                            executor |-> [kind |-> "Executor",
                                                          inner |-> last'.stream]])
             /\ ~PendingIn(promises', last'.h)
       /\ last'.op = "Promise::Drop"
          => /\ Pending(last'.h)
             /\ invoked' = invoked
             /\ ~PendingIn(promises', last'.h)
             /\ handleVars' = handleVars
       /\ invoked' # invoked => last'.op = "Promise::execute"
       /\ \A f \in 1 .. closures' :
              /\ TimesInvoked(invoked', f) <= 1
              /\ TimesInvoked(invoked', f) = 1
                    => \A p \in PromiseSlots : ~(PendingIn(promises', p) /\ promises'[p].f = f)]_vars

(* One promise has been resolved on the other stream than its own, one     *)
(* dropped while Pending, and a third is still Pending.                    *)
C16_Witness ==
    /\ closures = MaxClosures
    /\ Len(invoked) = 1
    /\ last.op = "Promise::execute"
    /\ last.arg.inner # last.stream
    /\ \E p \in PromiseSlots : Pending(p)
    /\ \E f \in 1 .. closures :
           /\ TimesInvoked(invoked, f) = 0
           /\ \A p \in PromiseSlots : ~(Pending(p) /\ promises[p].f = f)

(* C20 as stated: poll returns Ok(NotReady), calls no closure and leaves   *)
(* the Promise Pending and unchanged, and a Promise stops being Pending    *)
(* only in a step that resolves it.                                        *)
C20_OnlyResolutionLeavesPending ==
    [][/\ last'.op = "Promise::poll"
          => /\ last'.ret = [ok |-> TRUE, val |-> "NotReady"]
             /\ invoked' = invoked
             /\ promises' = promises
             /\ PendingIn(promises', last'.h)
       /\ \A p \in PromiseSlots :
              (Pending(p) /\ ~PendingIn(promises', p)) => (last'.op = "Promise::execute" /\ last'.h = p)]_vars

(* C20: poll returns Ok(NotReady), never Ready and never an error, calls   *)
(* no closure and leaves every Promise as it was (the polled one Pending,  *)
(* same stream token, same closure); a Promise stops being Pending only in *)
(* a step that resolves it or drops it, and a closure is called only in a  *)
(* step that resolves.                                                     *)
C20_PollNeverDrives ==
    [][/\ last'.op = "Promise::poll"
          => /\ last'.ret = [ok |-> TRUE, val |-> "NotReady"]
             /\ invoked' = invoked
             /\ promises' = promises
             /\ PendingIn(promises', last'.h)
             /\ promises'[last'.h].inner = last'.arg.inner
             /\ promises'[last'.h].f = last'.arg.f
       /\ \A p \in PromiseSlots :
              (Pending(p) /\ ~PendingIn(promises', p))
                  => (last'.op \in {"Promise::execute", "Promise::Drop"} /\ last'.h = p)
       /\ invoked' # invoked => last'.op = "Promise::execute"]_vars

(* A Promise polled after another was resolved: still Pending, its closure *)
(* not called.                                                             *)
C20_Witness ==
    /\ last.op = "Promise::poll"
    /\ Pending(last.h)
    /\ promises[last.h] = last.arg
    /\ TimesInvoked(invoked, promises[last.h].f) = 0
    /\ Len(invoked) >= 1

SyncOps == {"copy_from", "copy_to"}

AsyncOps == {"async_copy_from", "async_copy_to"}

(* C17: copy_from / copy_to between endpoints that hold different numbers  *)
(* of elements return Err(SizeMismatch) and leave every endpoint as it     *)
(* was; between endpoints of equal counts, a call that returns Ok returns  *)
(* with the destination holding exactly the source's elements and nothing  *)
(* left in flight on its behalf.  Neither case panics.                     *)
C17_SyncCopyChecksCounts ==
    [][last'.op \in SyncOps
        => /\ Len(mem[last'.dst]) # Len(mem[last'.src])
                => /\ ~last'.ok
                   /\ last'.err = SizeMismatch
                   /\ mem' = mem
           /\ Len(mem[last'.dst]) = Len(mem[last'.src])
                => /\ last'.err # SizeMismatch
                   /\ last'.ok => /\ mem'[last'.dst] = mem[last'.src]
                                  /\ \A e \in Endpoints \ {last'.dst} : mem'[e] = mem[e]
                   /\ ~last'.ok => mem' = mem
           /\ queues' = queues
           /\ completed' = completed
           /\ ~panicked']_vars

(* A blocking copy into a two-element endpoint from a one-element one was  *)
(* refused, after an earlier copy between equal endpoints had gone through. *)
C17_Witness ==
    /\ last.op \in SyncOps
    /\ ~last.ok
    /\ last.err = SizeMismatch
    /\ Len(mem[last.dst]) > Len(mem[last.src])
    /\ \E e \in Endpoints : \E d \in Endpoints \ {e} :
           /\ mem[e] = mem[d]
           /\ mem[e] = [i \in 1 .. EndpointLen(d) |-> 10 * d + i]

(* C18: an asynchronous copy call that returns Ok has only appended the    *)
(* copy to its stream's queue: no element has moved and nothing has        *)
(* completed.  Copies enqueued on one stream complete in the order they    *)
(* were enqueued: among completed copies of a stream the earlier enqueued  *)
(* completed earlier, and no copy still queued on a stream was enqueued    *)
(* before one of that stream that has completed.                           *)
C18_AsyncCopiesAreFifoPerStream ==
    [][/\ (last'.op \in AsyncOps /\ last'.ok)
          => /\ mem' = mem
             /\ completed' = completed
             /\ queues'[last'.stream]
                    = Append(queues[last'.stream],
                             [id |-> submitted', stream |-> last'.stream,
                              dst |-> last'.dst, src |-> last'.src])
             /\ \A s \in Streams \ {last'.stream} : queues'[s] = queues[s]
       /\ \A i \in DOMAIN completed' : \A j \in DOMAIN completed' :
              (i < j /\ completed'[i].stream = completed'[j].stream)
                  => completed'[i].id < completed'[j].id
       /\ \A s \in Streams : \A k \in DOMAIN queues'[s] : \A i \in DOMAIN completed' :
              completed'[i].stream = s => completed'[i].id < queues'[s][k].id]_vars

(* Three copies on two streams have completed; across the streams one pair *)
(* completed in the order enqueued and one pair in the opposite order, and *)
(* the two copies of one stream completed in the order enqueued.           *)
C18_Witness ==
    /\ Len(completed) = MaxCopies
    /\ \E i \in DOMAIN completed : \E j \in DOMAIN completed :
           /\ i < j
           /\ completed[i].stream # completed[j].stream
           /\ completed[i].id > completed[j].id
    /\ \E i \in DOMAIN completed : \E j \in DOMAIN completed :
           /\ i < j
           /\ completed[i].stream # completed[j].stream
           /\ completed[i].id < completed[j].id
    /\ \E i \in DOMAIN completed : \E j \in DOMAIN completed :
           /\ i < j
           /\ completed[i].stream = completed[j].stream

NewOps == {"LockedBox::new", "UnifiedBox::new"}

StoreOps == {"LockedBox::deref_mut", "UnifiedBox::deref_mut"}

(* *x for a box x of either kind.                                          *)
BoxDeref(be, hd, ub, uninit) ==
    IF hd.kind = "LockedBox" THEN LockedBox_deref(be, hd, ub, uninit)
    ELSE UnifiedBox_deref(be, hd, ub, uninit)

(* *x reads v in every build, whatever unwritten memory holds.             *)
DerefsTo(be, hd, v) ==
    \A ub \in UbOutcomes : \A uninit \in 0 .. MaxMem :
        BoxDeref(be, hd, ub, uninit) = [abort |-> FALSE, val |-> v]

HoldsSizedBox(hs, g) ==
    hs[g].kind \in {"LockedBox", "UnifiedBox"} /\ SizeOf(hs[g].ty) > 0

(* C19: for a type with a size, a successful LockedBox::new(value) or      *)
(* UnifiedBox::new(value) makes exactly one driver call, an allocation of  *)
(* one element in the box's region, returns a handle holding the non-null  *)
(* pointer that call returned, and the handle dereferences to value.  A    *)
(* store of w through a handle makes it dereference to w, and a handle     *)
(* the caller still holds dereferences to the same value after every step  *)
(* that is not a store through it.                                         *)
C19_NewBoxHoldsValueUntilReleased ==
    [][/\ (last'.op \in NewOps /\ last'.ok /\ SizeOf(last'.ty) > 0)
          => /\ Len(backend'.calls) = 1
             /\ backend'.calls[1].fn = "malloc"
             /\ backend'.calls[1].arg = 1
             /\ backend'.calls[1].region = RegionOf(last'.handle.kind)
             /\ backend'.calls[1].ptr = last'.handle.ptr
             /\ last'.handle.ptr # Null
             /\ handles'[last'.h] = last'.handle
             /\ DerefsTo(backend', last'.handle, last'.val)
       /\ (last'.op \in StoreOps /\ SizeOf(last'.ty) > 0)
          => /\ handles'[last'.h] = handles[last'.h]
             /\ backend'.calls = <<>>
             /\ DerefsTo(backend', handles'[last'.h], last'.val)
       /\ \A g \in Slots :
              (/\ HoldsSizedBox(handles, g)
               /\ handles'[g] = handles[g]
               /\ ~(last'.op \in StoreOps /\ last'.h = g))
                  => \A ub \in UbOutcomes : \A uninit \in 0 .. MaxMem :
                         BoxDeref(backend', handles'[g], ub, uninit)
                             = BoxDeref(backend, handles[g], ub, uninit)]_vars

(* A LockedBox reads the value just stored through it, beside a           *)
(* UnifiedBox that reads the other value.                                  *)
C19_Witness ==
    /\ last.op = "LockedBox::deref_mut"
    /\ last.val = 0
    /\ HoldsSizedBox(handles, last.h)
    /\ DerefsTo(backend, handles[last.h], 0)
    /\ \E g \in Slots :
           /\ handles[g].kind = "UnifiedBox"
           /\ HoldsSizedBox(handles, g)
           /\ DerefsTo(backend, handles[g], MaxVal)

Min(a, b) == IF a < b THEN a ELSE b

(* C21: Executor::copy with a source of m elements and a destination of n  *)
(* sets destination element i to source element i for every i below        *)
(* min(m, n) and leaves the destination's length, its elements from        *)
(* min(m, n) on and the whole source as they were; it returns normally     *)
(* whether or not m = n, and touches nothing else.                         *)
C21_CopyTruncatesToShorter ==
    [][last'.op = "Executor::copy"
        => LET srcs == last'.srcs
               dsts == last'.dsts
               ret == last'.ret
               k == Min(Len(srcs), Len(dsts))
           IN  /\ DOMAIN ret.dsts = DOMAIN dsts
               /\ \A i \in 1 .. k : ret.dsts[i] = srcs[i]
               /\ \A i \in k + 1 .. Len(dsts) : ret.dsts[i] = dsts[i]
               /\ ret.srcs = srcs
               /\ ~ret.panic
               /\ UNCHANGED <<handleVars, promiseVars, transferVars>>]_vars

(* A copy from a one-element source into a full-length destination: the    *)
(* first element was replaced, the last kept, and no error reported.       *)
C21_Witness ==
    /\ last.op = "Executor::copy"
    /\ Len(last.srcs) = 1
    /\ Len(last.dsts) = MaxLen
    /\ last.srcs[1] = MaxVal
    /\ last.dsts[1] = 0 - MaxVal
    /\ last.dsts[MaxLen] = 0
    /\ last.ret.dsts[1] = MaxVal
    /\ last.ret.dsts[MaxLen] = 0
    /\ ~last.ret.panic

====
